---- MODULE Spec2Model ----
(***************************************************************************)
(* Model of the feed aggregation, the link resolution and the calculators  *)
(* of VLF_App.py:                                                          *)
(*   NewsScreen._fetch_arxiv_papers_thread / _update_arxiv_papers          *)
(*   NewsScreen.open_article_detail                                        *)
(*   PapersScreen._load_physics_categories_thread / _update_category_...   *)
(*   PapersScreen.open_paper_detail                                        *)
(*   CalculatorsScreen.convert_frequency / calculate_distance /            *)
(*   calculate_waveguide                                                   *)
(* and of the background threads the buttons of the two screens start     *)
(* (spaceflight, arXiv and physics news, arXiv search, category loading)   *)
(* with the callbacks they hand to the UI loop through Clock.schedule_once.*)
(* Python strings are TLA+ strings; s[:n], str.strip, str.split, `in` and  *)
(* string comparison are computed character by character.                  *)
(***************************************************************************)
EXTENDS Integers, Sequences, FiniteSets, TLC

VARIABLES
    news_status,     \* NewsScreen.status_label.text
    news_content,    \* NewsScreen.news_content: the items displayed, in order
    pc,              \* position of the arXiv fetch thread of the news screen
    qi,              \* index in search_queries of the next query of the loop
    all_papers,      \* local all_papers of _fetch_arxiv_papers_thread
    fetched,         \* outcome of each request made so far, in request order
    log,             \* queries whose 'Error fetching from arXiv' line was printed
    clock,           \* callbacks handed to Clock.schedule_once, oldest first
    papers_status,   \* PapersScreen.status_label.text
    papers_content,  \* PapersScreen.papers_content: the papers displayed
    cat_pc,          \* position of the physics-category loader thread
    ci,              \* index in categories of the next category of the loop
    cat_papers,      \* local all_papers of _load_physics_categories_thread
    cat_fetched,     \* outcome of each category request made so far
    browser,         \* URLs handed to webbrowser.open, oldest first
    crashed,         \* the exception that left a UI callback and ended the app, or ""
    calc,            \* CalculatorsScreen: the text of each input field and result label
    threads          \* the fetch threads started, in start order, and where each stands

vars == <<news_status, news_content, pc, qi, all_papers, fetched, log, clock,
          papers_status, papers_content, cat_pc, ci, cat_papers, cat_fetched,
          browser, crashed, calc, threads>>

newsVars == <<news_status, news_content, pc, qi, all_papers, fetched, log>>
papersVars == <<papers_status, papers_content, cat_pc, ci, cat_papers,
                cat_fetched, browser>>

(***************************************************************************)
(* Bounds of the model.                                                    *)
(***************************************************************************)
\* Entries in one response body (the requests ask for max_results=5).
MaxEntries == 3

(***************************************************************************)
(* Python string operations.                                               *)
(***************************************************************************)
\* The characters of the modelled texts that string comparison can meet, in
\* code-point order.
CodeOrder ==
    " +,-./0123456789:=?ABCDEFGHIJKLMNOPQRSTUVWXYZ_abcdefghijklmnopqrstuvwxyz"

SetMin(S) == CHOOSE x \in S : \A y \in S : x <= y
SetMax(S) == CHOOSE x \in S : \A y \in S : x >= y

CharAt(s, i) == SubSeq(s, i, i)

CharCode(c) == CHOOSE i \in 1..Len(CodeOrder) : CharAt(CodeOrder, i) = c

\* a < b for Python str: the first differing character decides, a proper
\* prefix is smaller.
StrLess(a, b) ==
    LET n == IF Len(a) < Len(b) THEN Len(a) ELSE Len(b)
        diffs == {i \in 1..n : CharAt(a, i) # CharAt(b, i)}
    IN  IF a = b THEN FALSE
        ELSE IF diffs = {} THEN Len(a) < Len(b)
        ELSE CharCode(CharAt(a, SetMin(diffs))) < CharCode(CharAt(b, SetMin(diffs)))

\* s[:n], for strings and lists.
Take(s, n) == SubSeq(s, 1, IF Len(s) < n THEN Len(s) ELSE n)

IsSpace(c) == c \in {" ", "\t", "\n", "\r", "\f"}

\* s.strip()
Strip(s) ==
    LET keep == {i \in 1..Len(s) : ~IsSpace(CharAt(s, i))}
    IN  IF keep = {} THEN "" ELSE SubSeq(s, SetMin(keep), SetMax(keep))

\* sub in s
Contains(s, sub) ==
    \E i \in 1..(Len(s) - Len(sub) + 1) : SubSeq(s, i, i + Len(sub) - 1) = sub

\* s.split(sep)[-1]: what follows the last occurrence of sep, s without one.
AfterLast(s, sep) ==
    LET at == {i \in 1..(Len(s) - Len(sep) + 1) :
                   SubSeq(s, i, i + Len(sep) - 1) = sep}
    IN  IF at = {} THEN s ELSE SubSeq(s, SetMax(at) + Len(sep), Len(s))

\* s.split(sep)[0]: what precedes the first occurrence of sep, s without one.
BeforeFirst(s, sep) ==
    LET at == {i \in 1..(Len(s) - Len(sep) + 1) :
                   SubSeq(s, i, i + Len(sep) - 1) = sep}
    IN  IF at = {} THEN s ELSE SubSeq(s, 1, SetMin(at) - 1)

\* sep.join(names)
RECURSIVE Join(_, _)
Join(names, sep) ==
    IF names = <<>> THEN ""
    ELSE IF Len(names) = 1 THEN names[1]
    ELSE names[1] \o sep \o Join(Tail(names), sep)

\* s.replace(old, new) for a one-character old.
RECURSIVE Replace(_, _, _)
Replace(s, old, new) ==
    IF s = "" THEN ""
    ELSE (IF CharAt(s, 1) = old THEN new ELSE CharAt(s, 1))
         \o Replace(SubSeq(s, 2, Len(s)), old, new)

(***************************************************************************)
(* An Atom entry as ElementTree shows it.  A child element is absent       *)
(* (find returns None), present without text (.text is None) or present    *)
(* with text.                                                              *)
(***************************************************************************)
Absent == [kind |-> "absent", text |-> ""]
NoText == [kind |-> "notext", text |-> ""]
Txt(s) == [kind |-> "text", text |-> s]

\* authors: the name element of each atom:author, in document order.
\* categories: the term attribute of each atom:category.
Entry(title, id, published, summary, authors, categories) ==
    [title |-> title, id |-> id, published |-> published, summary |-> summary,
     authors |-> authors, categories |-> categories]

(***************************************************************************)
(* NewsScreen._fetch_arxiv_papers_thread: one entry of a response.         *)
(***************************************************************************)
\* ', '.join(authors[:3]) raises when one of the first three names is None.
NewsAuthors(entry) ==
    LET named == SelectSeq(entry.authors, LAMBDA a : a.kind # "absent")
    IN  [names |-> [i \in 1..Len(named) |-> named[i].text],
         raises |-> \E i \in 1..Len(named) : i <= 3 /\ named[i].kind = "notext"]

\* The statements of the loop body that raise (.text is None where the code
\* calls .strip(), slices or tests `in`).
NewsEntryRaises(entry) ==
    \/ entry.title.kind = "notext"
    \/ entry.id.kind = "notext"
    \/ entry.published.kind = "notext"
    \/ entry.summary.kind = "notext"
    \/ NewsAuthors(entry).raises

\* The dict appended to all_papers for an entry that raises nothing.
NewsPaper(entry) ==
    LET title == IF entry.title.kind = "text" THEN Strip(entry.title.text)
                 ELSE "No title"
        arxiv_url == IF entry.id.kind = "text" THEN entry.id.text ELSE ""
        clean_url == IF Contains(arxiv_url, "arxiv.org/abs/")
                     THEN "https://arxiv.org/abs/" \o AfterLast(arxiv_url, "/")
                     ELSE arxiv_url
        published == IF entry.published.kind = "text"
                     THEN Take(entry.published.text, 10)
                     ELSE "2025-05-25"
        summary == IF entry.summary.kind = "text" THEN Strip(entry.summary.text)
                   ELSE "No abstract available"
        authors == NewsAuthors(entry).names
        author_text == Join(Take(authors, 3), ", ")
                       \o (IF Len(authors) > 3 THEN " et al." ELSE "")
    IN  [title |-> title,
         date |-> published,
         content |-> "Authors: " \o author_text \o "\n\nAbstract: "
                     \o Take(summary, 200) \o "...",
         source |-> "arXiv",
         url |-> clean_url]

\* for entry in entries: ... all_papers.append(paper), until an entry raises.
\* The papers appended before the exception stay in all_papers.
RECURSIVE NewsParseEntries(_, _)
NewsParseEntries(acc, entries) ==
    IF entries = <<>> THEN [papers |-> acc, raised |-> FALSE]
    ELSE IF NewsEntryRaises(Head(entries)) THEN [papers |-> acc, raised |-> TRUE]
    ELSE NewsParseEntries(Append(acc, NewsPaper(Head(entries))), Tail(entries))

(***************************************************************************)
(* PapersScreen._load_physics_categories_thread: one entry of a response.  *)
(***************************************************************************)
\* arxiv_id of an id text that contains 'arxiv.org/abs/'.
ArxivId(id_text) ==
    LET tail == AfterLast(id_text, "arxiv.org/abs/")
    IN  IF Contains(tail, "v") THEN BeforeFirst(tail, "v") ELSE tail

\* The statements of the loop body that raise.
PapersEntryRaises(entry) ==
    \/ entry.id.kind = "notext"
    \/ entry.title.kind = "notext"
    \/ entry.summary.kind = "notext"
    \/ entry.published.kind = "notext"

\* The dict appended to all_papers.  authors holds name_elem.text of every
\* author that has a name element: NoText where that text is None.
PapersPaper(entry) ==
    LET matches == entry.id.kind = "text" /\ Contains(entry.id.text, "arxiv.org/abs/")
        arxiv_id == IF matches THEN ArxivId(entry.id.text) ELSE ""
    IN  [title |-> IF entry.title.kind = "text" THEN Strip(entry.title.text)
                   ELSE "No title",
         abstract |-> IF entry.summary.kind = "text" THEN Strip(entry.summary.text)
                      ELSE "No abstract",
         authors |-> SelectSeq(entry.authors, LAMBDA a : a.kind # "absent"),
         published |-> IF entry.published.kind = "text"
                       THEN Take(entry.published.text, 10) ELSE "",
         categories |-> SelectSeq(entry.categories, LAMBDA term : term # ""),
         pdf_url |-> IF matches THEN "https://arxiv.org/pdf/" \o arxiv_id \o ".pdf"
                     ELSE "",
         abstract_url |-> IF matches THEN "https://arxiv.org/abs/" \o arxiv_id
                          ELSE "",
         arxiv_id |-> arxiv_id]

\* for entry in root.findall(entry): ... all_papers.append(paper), until an
\* entry raises.
RECURSIVE PapersParseEntries(_, _)
PapersParseEntries(acc, entries) ==
    IF entries = <<>> THEN [papers |-> acc, raised |-> FALSE]
    ELSE IF PapersEntryRaises(Head(entries)) THEN [papers |-> acc, raised |-> TRUE]
    ELSE PapersParseEntries(Append(acc, PapersPaper(Head(entries))), Tail(entries))

(***************************************************************************)
(* A response of the feed endpoint.  err: the transport's failure, if any; *)
(* status_code: the HTTP status; wellformed: whether ET.fromstring accepts *)
(* the body; entries: the atom:entry elements of a well-formed body.       *)
(***************************************************************************)
Response(err, status_code, wellformed, entries) ==
    [err |-> err, status_code |-> status_code, wellformed |-> wellformed,
     entries |-> entries]

\* urllib.request.urlopen raises on a transport failure and on an HTTP error
\* status; ET.fromstring raises on a malformed body.
NewsRequestRaises(resp) ==
    resp.err # "none" \/ resp.status_code # 200 \/ ~resp.wellformed

categories ==
    <<"physics.space-ph", "physics.plasm-ph", "physics.ao-ph", "physics.geo-ph">>

\* str(e) of the exception that ends the category loader.
ErrorText(resp) ==
    IF resp.err = "network" THEN "Connection refused"
    ELSE IF resp.err = "timeout" THEN "Read timed out"
    ELSE IF ~resp.wellformed THEN "syntax error: line 1, column 0"
    ELSE "'NoneType' object has no attribute 'strip'"

\* One iteration of `for category in categories` on all_papers = acc.
\* requests.get raises on a transport failure; a status other than 200 skips
\* the category; ET.fromstring and the entry loop raise into the handler of
\* the whole thread.
CatQueryResult(acc, resp) ==
    IF resp.err # "none" THEN [papers |-> acc, raised |-> TRUE]
    ELSE IF resp.status_code # 200 THEN [papers |-> acc, raised |-> FALSE]
    ELSE IF ~resp.wellformed THEN [papers |-> acc, raised |-> TRUE]
    ELSE PapersParseEntries(acc, resp.entries)

search_queries ==
    <<"VLF electromagnetic waves", "very low frequency radio",
      "earth ionosphere waveguide", "whistler waves", "magnetospheric waves">>

\* One iteration of `for query in search_queries` on all_papers = acc.
NewsQueryResult(acc, resp) ==
    IF NewsRequestRaises(resp) THEN [papers |-> acc, raised |-> TRUE]
    ELSE NewsParseEntries(acc, resp.entries)

\* Variant: the handler leaves the loop (break) instead of going on.
NewsNextQuery_break(q, raised) ==
    IF raised THEN Len(search_queries) + 1 ELSE q + 1

\* except Exception: print(...); continue
NewsNextQuery(q, raised) == q + 1

(***************************************************************************)
(* Deduplication, sort and truncation of _fetch_arxiv_papers_thread.       *)
(***************************************************************************)
TotalLimit == 10

\* Variant: the last record of each title is kept, as a dict keyed by title
\* that is overwritten would.
RECURSIVE UniquePapers_keeplast(_)
UniquePapers_keeplast(papers) ==
    IF papers = <<>> THEN <<>>
    ELSE LET rest == UniquePapers_keeplast(Tail(papers))
         IN  IF \E i \in 1..Len(Tail(papers)) : papers[i + 1].title = papers[1].title
             THEN rest
             ELSE <<Head(papers)>> \o rest

\* unique_papers: a paper is kept when its title is not in seen_titles.
RECURSIVE Dedup(_, _, _)
Dedup(papers, unique_papers, seen_titles) ==
    IF papers = <<>> THEN unique_papers
    ELSE IF Head(papers).title \notin seen_titles
    THEN Dedup(Tail(papers), Append(unique_papers, Head(papers)),
               seen_titles \cup {Head(papers).title})
    ELSE Dedup(Tail(papers), unique_papers, seen_titles)

UniquePapers(papers) == Dedup(papers, <<>>, {})

\* list.sort(key=lambda x: x['date'], reverse=True): descending, and stable
\* (papers with equal dates keep their order).  Insert(sorted, p) places p
\* after every paper whose date is not smaller than p's.
RECURSIVE Insert(_, _)
Insert(sorted, p) ==
    IF sorted = <<>> THEN <<p>>
    ELSE IF StrLess(Head(sorted).date, p.date) THEN <<p>> \o sorted
    ELSE <<Head(sorted)>> \o Insert(Tail(sorted), p)

\* Variant of Insert: p goes before the papers of its own date.
RECURSIVE InsertBeforeEqual(_, _)
InsertBeforeEqual(sorted, p) ==
    IF sorted = <<>> THEN <<p>>
    ELSE IF ~StrLess(p.date, Head(sorted).date) THEN <<p>> \o sorted
    ELSE <<Head(sorted)>> \o InsertBeforeEqual(Tail(sorted), p)

RECURSIVE SortInto(_, _)
SortInto(sorted, papers) ==
    IF papers = <<>> THEN sorted
    ELSE SortInto(Insert(sorted, Head(papers)), Tail(papers))

\* Variant: the order of sorted(..., key=date)[::-1], where papers with
\* equal dates end up in reverse merge order.
RECURSIVE SortIntoReversed(_, _)
SortIntoReversed(sorted, papers) ==
    IF papers = <<>> THEN sorted
    ELSE SortIntoReversed(InsertBeforeEqual(sorted, Head(papers)), Tail(papers))

SortByDateDesc_reversed(papers) == SortIntoReversed(<<>>, papers)

SortByDateDesc(papers) == SortInto(<<>>, papers)

\* Variant: the merged list is cut to the limit before deduplication.
FinalPapers_truncfirst(papers) ==
    SortByDateDesc(UniquePapers(Take(papers, TotalLimit)))

\* final_papers = unique_papers[:10], after the sort.
FinalPapers(papers) == Take(SortByDateDesc(UniquePapers(papers)), TotalLimit)

(***************************************************************************)
(* The response bodies the model lets the feed endpoint return to query q. *)
(* Titles are unique to (q, j) except the shared title, which any query    *)
(* can return, with a date that depends on the query.                      *)
(***************************************************************************)
\* atom:published texts; the first two fall on the same day.
PubTexts ==
    <<"2025-05-24T10:00:00Z", "2025-05-24T18:30:00Z", "2025-05-26T09:00:00Z",
      "2025-05-20T07:15:00Z">>

PubText(k) == PubTexts[(k % Len(PubTexts)) + 1]

OwnTitle(q, j) == "VLF study " \o ToString(q) \o "." \o ToString(j)
OwnId(q, j) == "http://arxiv.org/abs/2505.0" \o ToString(q) \o ToString(j) \o "v1"
SharedTitle == "Whistler waves in the magnetosphere"

OwnEntry(q, j) ==
    Entry(Txt(OwnTitle(q, j)), Txt(OwnId(q, j)), Txt(PubText(q + j)),
          Txt("We study VLF propagation."), <<Txt("A. Author")>>,
          <<"physics.space-ph">>)

\* The cross-listed paper, as query q returns it.
SharedEntry(q) ==
    Entry(Txt(SharedTitle), Txt("http://arxiv.org/abs/2505.00999v2"),
          Txt(PubText(q - 1)), Txt("Whistler-mode waves."),
          <<Txt("B. Author"), Txt("C. Author"), Txt("D. Author"), Txt("E. Author")>>,
          <<"physics.space-ph", "physics.plasm-ph">>)

\* The same title with surrounding white space, and an older date.
PaddedEntry(q) ==
    Entry(Txt("  " \o SharedTitle \o "\n"), Txt("http://arxiv.org/abs/2505.00999v1"),
          Txt(PubText(3)), Txt(" Whistler-mode waves. "), <<Txt("B. Author")>>,
          <<"physics.plasm-ph">>)

\* An entry without title, id and published elements.
BareEntry(q) ==
    Entry(Absent, Absent, Absent, Absent, <<Absent>>, <<>>)

\* An entry whose only author has a name element without text.
NamelessEntry(q) ==
    Entry(Txt("On " \o OwnTitle(q, 0)), Txt(OwnId(q, 9)), Txt(PubText(q)),
          Txt("Anonymous."), <<NoText>>, <<"physics.ao-ph">>)

\* An entry whose title element has no text.
EmptyTitleEntry(q) ==
    Entry(NoText, Txt(OwnId(q, 0)), Txt(PubText(q)), Txt("No title given."),
          <<Txt("A. Author")>>, <<"physics.geo-ph">>)

Bodies(q) ==
    LET own == [j \in 1..MaxEntries |-> OwnEntry(q, j)]
    IN  { <<>>,
          own,
          <<SharedEntry(q)>> \o SubSeq(own, 2, MaxEntries),
          <<BareEntry(q), PaddedEntry(q), SharedEntry(q + 1)>>
              \o SubSeq(own, 4, MaxEntries),
          <<own[1], EmptyTitleEntry(q)>> \o SubSeq(own, 3, MaxEntries) }

Responses(q) ==
    {Response("none", 200, TRUE, b) : b \in Bodies(q)}
    \cup {Response("network", 0, FALSE, <<>>), Response("timeout", 0, FALSE, <<>>),
          Response("none", 503, FALSE, <<>>), Response("none", 200, FALSE, <<>>)}

\* NewsQueryResult(<<>>, resp) for every response of every query, evaluated
\* once: an iteration appends these papers to all_papers.
NewsParsed ==
    [q \in 1..Len(search_queries) |->
        [resp \in Responses(q) |-> NewsQueryResult(<<>>, resp)]]

\* What a request is remembered by: whether it raised before any entry was
\* read, and the entries of the body otherwise.
Outcome(failed, entries) == [failed |-> failed, entries |-> entries]

(***************************************************************************)
(* State after construction of the screens.                                *)
(***************************************************************************)
\* The bullet characters of the second item's text are written as commas.
SampleNews ==
    <<[title |-> "Welcome to VLF Research News Hub", date |-> "2025-05-24",
       content |-> "Click the buttons above to fetch the latest news from Spaceflight News API, arXiv research papers, or general physics news. The app will fetch real-time data from these sources and open articles directly in your browser.",
       source |-> "VLF Research Hub", url |-> "https://vlfstanford.ku.edu.tr/"],
      [title |-> "API Integration Features", date |-> "2025-05-24",
       content |-> "This app integrates with: Spaceflight News API for space-related news, arXiv API for latest research papers, Physics news from various sources. Click any article to open it in your web browser.",
       source |-> "App Info", url |-> "https://arxiv.org/list/physics.space-ph/recent"]>>

SamplePapers ==
    <<[title |-> "Welcome to VLF Research Papers", authors |-> <<Txt("VLF Research Hub")>>,
       published |-> "2025-05-24",
       abstract |-> "Use the search box above to find the latest research papers from arXiv. You can search for specific terms like \"VLF electromagnetic waves\", \"lightning radio waves\", or \"plasma physics\".",
       categories |-> <<"App Info">>, pdf_url |-> "",
       abstract_url |-> "https://arxiv.org/list/physics.space-ph/recent",
       arxiv_id |-> ""]>>

InitNews ==
    /\ news_status = "Click a button above to fetch latest news"
    /\ news_content = SampleNews
    /\ pc = "idle"
    /\ qi = 1
    /\ all_papers = <<>>
    /\ fetched = <<>>
    /\ log = <<>>

InitPapers ==
    /\ papers_status = "Enter search terms and click \"Search arXiv\" for latest papers"
    /\ papers_content = SamplePapers
    /\ cat_pc = "idle"
    /\ ci = 1
    /\ cat_papers = <<>>
    /\ cat_fetched = <<>>
    /\ browser = <<>>

\* CalculatorsScreen.__init__: the input fields are empty (they show a hint),
\* the result labels show their placeholder.  The subscript zero of the
\* cutoff label is written 0.
InitCalc ==
    calc = [freq_input |-> "", wavelength_result |-> "Wavelength: --",
            start_lat |-> "", start_lon |-> "", end_lat |-> "", end_lon |-> "",
            distance_result |-> "Distance: --",
            waveguide_freq |-> "", dlayer_height |-> "",
            cutoff_result |-> "TM0 cutoff: --",
            phase_velocity_result |-> "Phase velocity: --",
            group_velocity_result |-> "Group velocity: --",
            attenuation_result |-> "Attenuation: --"]

Init ==
    InitNews /\ InitPapers /\ InitCalc /\ clock = <<>> /\ crashed = "" /\ threads = <<>>

\* A callback as Clock.schedule_once holds it.  frame is 0 when every name
\* of the lambda stays bound.
Callback(fn, papers, message) ==
    [fn |-> fn, papers |-> papers, message |-> message, frame |-> 0,
     articles |-> <<>>]

\* lambda dt: self._update_spaceflight_news(articles), with the articles of
\* the JSON body.
ArticlesCallback(articles) ==
    [fn |-> "_update_spaceflight_news", papers |-> <<>>, message |-> "",
     frame |-> 0, articles |-> articles]

\* The lambda of an `except Exception as e` block: update_status(f'...{str(e)}').
\* It reads e of the frame of thread number frame when it is called; message
\* is the text it gives while e is bound.
ErrorCallback(fn, message, frame) ==
    [fn |-> fn, papers |-> <<>>, message |-> message, frame |-> frame,
     articles |-> <<>>]

\* A fetch thread: the button that started it, the search terms it was
\* given, where it stands, the calls of Clock.schedule_once it has made, the
\* responses it has received and the list it has handed to its callback.
\* stage is "running" up to the call of schedule_once, "handling" between
\* the call of schedule_once in an except block and the end of that block,
\* where Python unbinds e, and "done" after.
Thread(kind, terms, stage, scheduled) ==
    [kind |-> kind, terms |-> terms, stage |-> stage, scheduled |-> scheduled,
     received |-> <<>>, delivered |-> <<>>]

\* Variant: e stays bound after the except block.
Unbound_never(cb) == FALSE

\* The name e of the lambda is unbound when the callback is called.
Unbound(cb) == cb.frame # 0 /\ threads[cb.frame].stage # "handling"

\* The thread leaves its except block: e is unbound.
end_of_except ==
    /\ crashed = ""
    /\ \E i \in 1..Len(threads) :
          /\ threads[i].stage = "handling"
          /\ threads' = [threads EXCEPT ![i].stage = "done"]
    /\ UNCHANGED <<calc, crashed, clock, newsVars, papersVars>>

(***************************************************************************)
(* News screen: the arXiv fetch.  This specification runs one fetch at a   *)
(* time: the button is pressed when no fetch thread is running.  Nothing   *)
(* outside the per-query try block raises, so the handler of the whole     *)
(* thread (lines 692-693) has no action.                                   *)
(***************************************************************************)
fetch_arxiv_papers ==
    /\ crashed = ""
    /\ pc \in {"idle", "finished"}
    /\ clock = <<>>
    /\ news_status' = "Fetching arXiv papers..."
    /\ news_content' = <<>>
    /\ pc' = "running"
    /\ qi' = 1
    /\ all_papers' = <<>>
    /\ fetched' = <<>>
    /\ log' = <<>>
    /\ UNCHANGED <<calc, threads, crashed, clock, papersVars>>

\* One iteration of the loop over search_queries.
NewsFetchQuery ==
    /\ crashed = ""
    /\ pc = "running"
    /\ qi <= Len(search_queries)
    /\ \E resp \in Responses(qi) :
          LET r == NewsParsed[qi][resp]
          IN  /\ all_papers' = all_papers \o r.papers
              /\ log' = IF r.raised THEN Append(log, qi) ELSE log
              /\ qi' = NewsNextQuery(qi, r.raised)
              /\ fetched' = Append(fetched,
                                   Outcome(NewsRequestRaises(resp),
                                           IF NewsRequestRaises(resp) THEN <<>>
                                           ELSE resp.entries))
    /\ UNCHANGED <<calc, threads, crashed, news_status, news_content, pc, clock, papersVars>>

\* After the loop: deduplicate, sort, truncate, schedule the UI callback.
NewsFinish ==
    /\ crashed = ""
    /\ pc = "running"
    /\ qi > Len(search_queries)
    /\ clock' = Append(clock, Callback("_update_arxiv_papers",
                                       FinalPapers(all_papers), ""))
    /\ pc' = "finished"
    /\ UNCHANGED <<calc, threads, crashed, news_status, news_content, qi, all_papers,
                   fetched, log,
                   papersVars>>

\* The UI loop runs the scheduled _update_arxiv_papers(papers).
update_arxiv_papers ==
    /\ crashed = ""
    /\ clock # <<>>
    /\ Head(clock).fn = "_update_arxiv_papers"
    /\ LET papers == Head(clock).papers
       IN  IF papers # <<>>
           THEN /\ news_content' = news_content \o papers
                /\ news_status' = "Loaded " \o ToString(Len(papers)) \o " arXiv papers"
           ELSE /\ news_content' = news_content
                /\ news_status' = "No arXiv papers found"
    /\ clock' = Tail(clock)
    /\ UNCHANGED <<calc, threads, crashed, pc, qi, all_papers, fetched, log, papersVars>>

Next ==
    \/ fetch_arxiv_papers
    \/ NewsFetchQuery
    \/ NewsFinish
    \/ update_arxiv_papers

Spec == Init /\ [][Next]_vars

(***************************************************************************)
(* Properties of the news-screen arXiv aggregation.                        *)
(***************************************************************************)
Range(seq) == {seq[i] : i \in 1..Len(seq)}

\* A query failed: its request raised, or one of its entries did.
QueryFailed(o) ==
    o.failed \/ \E j \in 1..Len(o.entries) : NewsEntryRaises(o.entries[j])

\* The thread has handed its result to the UI loop, which has not run the
\* callback yet.
NewsDelivered == pc = "finished" /\ clock # <<>>

\* The list handed to _update_arxiv_papers.
NewsList == Head(clock).papers

\* The callback has run.
NewsDisplayed == pc = "finished" /\ clock = <<>>

\* Place in merge order of the first record titled t.
FirstIndex(t) ==
    SetMin({k \in 1..Len(all_papers) : all_papers[k].title = t})

\* C1: every query is requested, in order, whatever the outcome of the
\* queries before it, and every entry of every query that completed without
\* error is in the merged sequence all_papers.
C1_FailedQueryIsSkipped ==
    /\ pc = "running" => qi = Len(fetched) + 1
    /\ pc = "finished" => Len(fetched) = Len(search_queries)
    /\ \A k \in 1..Len(fetched) :
          ~QueryFailed(fetched[k]) =>
              \A j \in 1..Len(fetched[k].entries) :
                  NewsPaper(fetched[k].entries[j]) \in Range(all_papers)

\* A request failed and a later query delivered entries.
C1_Witness ==
    /\ NewsDelivered
    /\ \E k1, k2 \in 1..Len(fetched) :
          /\ k1 < k2
          /\ fetched[k1].failed
          /\ ~QueryFailed(fetched[k2])
          /\ fetched[k2].entries # <<>>
          /\ NewsPaper(fetched[k2].entries[1]) \in Range(all_papers)

\* C2: the delivered list has no two records with the same title, and each
\* record is the first one of its title in merge order.
C2_FirstSeenWins ==
    NewsDelivered =>
        /\ \A i, j \in 1..Len(NewsList) :
              i # j => NewsList[i].title # NewsList[j].title
        /\ \A i \in 1..Len(NewsList) :
              /\ NewsList[i] \in Range(all_papers)
              /\ NewsList[i] = all_papers[FirstIndex(NewsList[i].title)]

\* A delivered title was merged twice, the second time with a newer date.
C2_Witness ==
    /\ NewsDelivered
    /\ \E k1, k2 \in 1..Len(all_papers) :
          /\ k1 < k2
          /\ all_papers[k1].title = all_papers[k2].title
          /\ StrLess(all_papers[k1].date, all_papers[k2].date)
          /\ \E i \in 1..Len(NewsList) : NewsList[i] = all_papers[k1]

\* C3: the delivered list is in descending date order, and records with
\* equal dates are in merge order.
C3_SortedStable ==
    NewsDelivered =>
        \A i, j \in 1..Len(NewsList) :
            i < j =>
                /\ ~StrLess(NewsList[i].date, NewsList[j].date)
                /\ NewsList[i].date = NewsList[j].date =>
                       FirstIndex(NewsList[i].title) < FirstIndex(NewsList[j].title)

\* The sort moved a newer record ahead of an older one merged before it, and
\* two delivered records tie on the date.
C3_Witness ==
    /\ NewsDelivered
    /\ \E i, j \in 1..Len(NewsList) :
          /\ i < j
          /\ StrLess(NewsList[j].date, NewsList[i].date)
          /\ FirstIndex(NewsList[j].title) < FirstIndex(NewsList[i].title)
    /\ \E i, j \in 1..Len(NewsList) :
          /\ i < j
          /\ NewsList[i].date = NewsList[j].date
          /\ NewsList[i].title # NewsList[j].title

\* The first record of each title, in merge order.
FirstRecords ==
    {all_papers[k] : k \in {FirstIndex(all_papers[i].title) : i \in 1..Len(all_papers)}}

\* C4: at most TotalLimit records are delivered; as many as there are
\* distinct titles, up to the limit; and no record dropped by the truncation
\* sorts before a delivered one.
C4_TruncatedAfterDedup ==
    NewsDelivered =>
        /\ Len(NewsList) <= TotalLimit
        /\ Len(NewsList) =
               IF Cardinality(FirstRecords) < TotalLimit
               THEN Cardinality(FirstRecords) ELSE TotalLimit
        /\ \A p \in FirstRecords \ Range(NewsList) :
              \A i \in 1..Len(NewsList) :
                  /\ ~StrLess(NewsList[i].date, p.date)
                  /\ NewsList[i].date = p.date =>
                         FirstIndex(NewsList[i].title) < FirstIndex(p.title)

\* More distinct titles than the limit, and a duplicate among the first
\* TotalLimit merged records.
C4_Witness ==
    /\ NewsDelivered
    /\ Cardinality(FirstRecords) > TotalLimit
    /\ Len(NewsList) = TotalLimit
    /\ \E k1, k2 \in 1..TotalLimit :
          k1 < k2 /\ all_papers[k1].title = all_papers[k2].title

\* C5: the fetch ends with 'No arXiv papers found' exactly when every query
\* failed or returned no entry; otherwise a non-empty list is displayed.
C5_NoResultsIffAllFailedOrEmpty ==
    NewsDisplayed =>
        /\ news_status = "No arXiv papers found"
               <=> \A k \in 1..Len(fetched) :
                       QueryFailed(fetched[k]) \/ fetched[k].entries = <<>>
        /\ news_status # "No arXiv papers found" => news_content # <<>>

\* C6: every delivered record is an entry of a query that completed without
\* error.
C6_FailedQueryContributesNothing ==
    NewsDelivered =>
        \A i \in 1..Len(NewsList) :
            \E k \in 1..Len(fetched) :
                /\ ~QueryFailed(fetched[k])
                /\ \E j \in 1..Len(fetched[k].entries) :
                       NewsPaper(fetched[k].entries[j]) = NewsList[i]

(***************************************************************************)
(* Papers screen: the physics-category loader.  One load at a time.        *)
(***************************************************************************)
CatResponses(c) ==
    LET own == [j \in 1..MaxEntries |-> OwnEntry(c, j)]
    IN  {Response("none", 200, TRUE, b) :
            b \in { <<>>,
                    own,
                    <<SharedEntry(c)>> \o SubSeq(own, 2, MaxEntries),
                    <<own[1], NamelessEntry(c)>>,
                    <<own[1], EmptyTitleEntry(c)>> \o SubSeq(own, 3, MaxEntries) }}
        \cup {Response("network", 0, FALSE, <<>>), Response("timeout", 0, FALSE, <<>>),
              Response("none", 503, FALSE, <<>>), Response("none", 200, FALSE, <<>>)}

\* A category request failed: transport failure, status other than 200,
\* malformed body, or an entry that raises.
CatRequestFailed(resp) ==
    \/ resp.err # "none"
    \/ resp.status_code # 200
    \/ ~resp.wellformed
    \/ \E j \in 1..Len(resp.entries) : PapersEntryRaises(resp.entries[j])

\* add_arxiv_paper: ', '.join(paper['authors'][:3]) raises when one of the
\* first three names is None.
AddPaperRaises(paper) ==
    \E i \in 1..Len(paper.authors) : i <= 3 /\ paper.authors[i].kind = "notext"

\* for paper in papers: self.add_arxiv_paper(paper), after clear_papers():
\* the papers displayed when the loop ends or a paper raises.
RECURSIVE AddedPapers(_)
AddedPapers(papers) ==
    IF papers = <<>> \/ AddPaperRaises(Head(papers)) THEN <<>>
    ELSE <<Head(papers)>> \o AddedPapers(Tail(papers))

load_physics_categories ==
    /\ crashed = ""
    /\ cat_pc \in {"idle", "finished"}
    /\ clock = <<>>
    /\ papers_status' = "Loading papers from physics categories..."
    /\ cat_pc' = "running"
    /\ ci' = 1
    /\ cat_papers' = <<>>
    /\ cat_fetched' = <<>>
    /\ threads' = <<Thread("categories", "", "running", 0)>>
    /\ UNCHANGED <<calc, crashed, papers_content, browser, clock, newsVars>>

\* One iteration of the loop over categories.  An exception leaves the loop
\* for the handler of the thread, which schedules the error status.
CatFetchCategory ==
    /\ crashed = ""
    /\ cat_pc = "running"
    /\ ci <= Len(categories)
    /\ \E resp \in CatResponses(ci) :
          LET r == CatQueryResult(cat_papers, resp)
          IN  /\ cat_fetched' = Append(cat_fetched,
                     Outcome(CatRequestFailed(resp),
                             IF resp.err = "none" /\ resp.status_code = 200
                                /\ resp.wellformed
                             THEN resp.entries ELSE <<>>))
              /\ IF r.raised
                 THEN /\ clock' = Append(clock,
                             ErrorCallback("papers.update_status",
                                 "Error loading categories: " \o ErrorText(resp),
                                 Len(threads)))
                      /\ cat_pc' = "finished"
                      /\ threads' = [threads EXCEPT ![Len(threads)].stage = "handling",
                                                    ![Len(threads)].scheduled = 1]
                      /\ UNCHANGED <<ci, cat_papers>>
                 ELSE /\ cat_papers' = r.papers
                      /\ ci' = ci + 1
                      /\ UNCHANGED <<clock, cat_pc, threads>>
    /\ UNCHANGED <<calc, crashed, papers_status, papers_content, browser, newsVars>>

\* After the loop: schedule the UI callback with everything merged.
CatFinish ==
    /\ crashed = ""
    /\ cat_pc = "running"
    /\ ci > Len(categories)
    /\ clock' = Append(clock, Callback("_update_category_results", cat_papers, ""))
    /\ cat_pc' = "finished"
    /\ threads' = [threads EXCEPT ![Len(threads)].stage = "done",
                                  ![Len(threads)].scheduled = 1]
    /\ UNCHANGED <<calc, crashed, papers_status, papers_content, ci, cat_papers,
                   cat_fetched,
                   browser, newsVars>>

\* The UI loop runs the scheduled _update_category_results(papers).  An
\* exception of add_arxiv_paper leaves the callback and ends the app.
update_category_results ==
    /\ crashed = ""
    /\ clock # <<>>
    /\ Head(clock).fn = "_update_category_results"
    /\ papers_content' = AddedPapers(Head(clock).papers)
    /\ papers_status' = "Loaded " \o ToString(Len(Head(clock).papers))
                        \o " papers from physics categories"
    /\ crashed' = IF \E i \in 1..Len(Head(clock).papers) :
                         AddPaperRaises(Head(clock).papers[i])
                  THEN "TypeError" ELSE ""
    /\ clock' = Tail(clock)
    /\ UNCHANGED <<calc, threads, cat_pc, ci, cat_papers, cat_fetched, browser, newsVars>>

\* The UI loop runs a scheduled lambda that calls PapersScreen.update_status.
\* Evaluating str(e) with e unbound raises NameError, which leaves the
\* callback and ends the app.
papers_update_status ==
    /\ crashed = ""
    /\ clock # <<>>
    /\ Head(clock).fn = "papers.update_status"
    /\ IF Unbound(Head(clock))
       THEN papers_status' = papers_status /\ crashed' = "NameError"
       ELSE papers_status' = Head(clock).message /\ crashed' = crashed
    /\ clock' = Tail(clock)
    /\ UNCHANGED <<calc, threads, papers_content, cat_pc, ci, cat_papers,
                   cat_fetched, browser,
                   newsVars>>

NextCategories ==
    \/ load_physics_categories
    \/ CatFetchCategory
    \/ CatFinish
    \/ update_category_results
    \/ papers_update_status
    \/ end_of_except

SpecCategories == Init /\ [][NextCategories]_vars

(***************************************************************************)
(* Properties of the physics-category loader.                              *)
(***************************************************************************)
\* C7: a failed category request is skipped: every category is requested,
\* and once the UI callback has run the papers of every category that
\* succeeded are displayed.
C7_FailedCategoryIsSkipped ==
    cat_pc = "finished" =>
        /\ Len(cat_fetched) = Len(categories)
        /\ clock = <<>> =>
               \A k \in 1..Len(cat_fetched) :
                   ~cat_fetched[k].failed =>
                       \A j \in 1..Len(cat_fetched[k].entries) :
                           PapersPaper(cat_fetched[k].entries[j])
                               \in Range(papers_content)

\* C8: the list handed to _update_category_results has no two records with
\* the same title.
C8_CategoryTitlesDistinct ==
    (clock # <<>> /\ Head(clock).fn = "_update_category_results") =>
        \A i, j \in 1..Len(Head(clock).papers) :
            i # j => Head(clock).papers[i].title # Head(clock).papers[j].title

(***************************************************************************)
(* PapersScreen.open_paper_detail.                                         *)
(***************************************************************************)
\* Opens of one run of the model.
MaxOpens == 2

\* Variant: the colons stay in the title.
TitleClean_nocolon(title) ==
    Replace(Replace(Replace(title, " ", "+"), ",", ""), "\"", "")

\* title_clean of the search-by-title URL.
TitleClean(title) ==
    Replace(Replace(Replace(Replace(title, " ", "+"), ",", ""), ":", ""), "\"", "")

SearchUrl(paper) ==
    "https://arxiv.org/search/?query=" \o TitleClean(paper.title)
        \o "&searchtype=title"

\* Variant: the if / elif chain without its else branch, url_to_open stays ''.
ResolveUrl_nofallback(paper) ==
    IF paper.abstract_url # "" /\ Contains(paper.abstract_url, "arxiv.org")
    THEN [url |-> paper.abstract_url, url_type |-> "arXiv abstract page"]
    ELSE IF paper.arxiv_id # ""
    THEN [url |-> "https://arxiv.org/abs/" \o paper.arxiv_id,
          url_type |-> "arXiv abstract page"]
    ELSE IF paper.pdf_url # "" /\ Contains(paper.pdf_url, "arxiv.org")
    THEN [url |-> paper.pdf_url, url_type |-> "arXiv PDF"]
    ELSE [url |-> "", url_type |-> ""]

\* url_to_open and url_type.
ResolveUrl(paper) ==
    IF paper.abstract_url # "" /\ Contains(paper.abstract_url, "arxiv.org")
    THEN [url |-> paper.abstract_url, url_type |-> "arXiv abstract page"]
    ELSE IF paper.arxiv_id # ""
    THEN [url |-> "https://arxiv.org/abs/" \o paper.arxiv_id,
          url_type |-> "arXiv abstract page"]
    ELSE IF paper.pdf_url # "" /\ Contains(paper.pdf_url, "arxiv.org")
    THEN [url |-> paper.pdf_url, url_type |-> "arXiv PDF"]
    ELSE [url |-> SearchUrl(paper), url_type |-> "arXiv search results"]

\* The 'Open Paper' button of a displayed paper.  webbrowser.open returns or
\* raises; browser records the URLs it was called with.
open_paper_detail ==
    /\ crashed = ""
    /\ Len(browser) < MaxOpens
    /\ \E i \in 1..Len(papers_content) :
          LET paper == papers_content[i]
              r == ResolveUrl(paper)
          IN  IF r.url # ""
              THEN /\ browser' = Append(browser, r.url)
                   /\ \/ papers_status' = "Opening " \o r.url_type \o ": "
                                          \o Take(paper.title, 40) \o "..."
                      \/ papers_status' = "Could not open browser: no runnable browser"
              ELSE /\ browser' = browser
                   /\ papers_status' = "No valid URL found for this paper"
    /\ UNCHANGED <<calc, threads, crashed, papers_content, cat_pc, ci, cat_papers,
                   cat_fetched, clock,
                   newsVars>>

\* The records the resolver is applied to: every combination of an empty, an
\* arxiv.org and a foreign-domain abstract_url and pdf_url, an empty and a
\* non-empty arxiv_id, and four titles.  One foreign abstract_url carries the
\* text arxiv.org in its path.
AbstractUrls ==
    {"", "https://arxiv.org/abs/2505.00011", "https://example.org/abs/2505.00011",
     "https://example.org/mirror/arxiv.org/2505.00011"}
ArxivIds == {"", "2505.00022"}
PdfUrls ==
    {"", "https://arxiv.org/pdf/2505.00033.pdf", "https://example.org/2505.00033.pdf"}
Titles ==
    {"", "VLF: waves, \"whistlers\" and more", "a  b,,c::d\"\"e+f",
     "Earth's D-layer:\n  a model"}

PaperInputs ==
    {[title |-> t, abstract |-> "No abstract", authors |-> <<>>, published |-> "",
      categories |-> <<>>, pdf_url |-> pu, abstract_url |-> au, arxiv_id |-> id] :
        t \in Titles, pu \in PdfUrls, au \in AbstractUrls, id \in ArxivIds}

InitOpen ==
    /\ InitNews
    /\ InitCalc
    /\ threads = <<>>
    /\ clock = <<>>
    /\ papers_status = "Enter search terms and click \"Search arXiv\" for latest papers"
    /\ papers_content \in {<<p>> : p \in PaperInputs}
    /\ cat_pc = "idle"
    /\ ci = 1
    /\ cat_papers = <<>>
    /\ cat_fetched = <<>>
    /\ browser = <<>>
    /\ crashed = ""

NextOpen == open_paper_detail

SpecOpen == InitOpen /\ [][NextOpen]_vars

(***************************************************************************)
(* Properties of open_paper_detail.                                        *)
(***************************************************************************)
\* The host of a URL: what stands between '://' and the next '/'.
UrlHost(url) ==
    LET at == {i \in 1..(Len(url) - 2) : SubSeq(url, i, i + 2) = "://"}
        rest == IF at = {} THEN url ELSE SubSeq(url, SetMin(at) + 3, Len(url))
    IN  BeforeFirst(rest, "/")

\* The URL is on the arxiv.org domain.
OnArxiv(url) ==
    \/ UrlHost(url) = "arxiv.org"
    \/ /\ Len(UrlHost(url)) > 10
       /\ SubSeq(UrlHost(url), Len(UrlHost(url)) - 9, Len(UrlHost(url))) = ".arxiv.org"

\* The URL the decision order of the claim gives.
ExpectedUrl(paper) ==
    IF paper.abstract_url # "" /\ OnArxiv(paper.abstract_url) THEN paper.abstract_url
    ELSE IF paper.arxiv_id # "" THEN "https://arxiv.org/abs/" \o paper.arxiv_id
    ELSE IF paper.pdf_url # "" /\ OnArxiv(paper.pdf_url) THEN paper.pdf_url
    ELSE SearchUrl(paper)

C10_UrlNeverEmpty ==
    /\ \A k \in 1..Len(browser) : browser[k] # ""
    /\ papers_status # "No valid URL found for this paper"
    /\ papers_status # "Enter search terms and click \"Search arXiv\" for latest papers"
           => browser # <<>>

\* A record with an empty title and every URL field empty has been opened.
C10_Witness ==
    /\ browser # <<>>
    /\ papers_content[1].arxiv_id = ""
    /\ papers_content[1].pdf_url = ""
    /\ papers_content[1].abstract_url = ""
    /\ papers_content[1].title = ""

(***************************************************************************)
(* News screen: one parsed entry, and the 'Read Full Article' button.      *)
(* The specification starts where the fetch thread has made four requests  *)
(* that failed and is about to make the last one; the last response holds  *)
(* an entry with each of its elements present with text, absent, or        *)
(* present without text, followed by a complete entry.                     *)
(***************************************************************************)
FieldKinds == {"text", "absent", "notext"}

\* An element of the entry: <x>s</x>, no element, or <x/>.
FieldOf(kind, s) ==
    IF kind = "text" THEN Txt(s) ELSE IF kind = "absent" THEN Absent ELSE NoText

FieldEntry(title, id, published, summary, name) ==
    Entry(FieldOf(title, " Sferics at night "),
          FieldOf(id, "http://arxiv.org/abs/2505.01234v1"),
          FieldOf(published, "2025-05-22T08:00:00Z"),
          FieldOf(summary, "Night-time sferics."),
          <<FieldOf(name, "F. Author")>>,
          <<"physics.ao-ph">>)

EntryResponses ==
    {Response("none", 200, TRUE,
              <<FieldEntry(t, i, p, s, a), OwnEntry(Len(search_queries), 1)>>) :
        t \in FieldKinds, i \in FieldKinds, p \in FieldKinds,
        s \in FieldKinds, a \in FieldKinds}

InitEntry ==
    /\ news_status = "Fetching arXiv papers..."
    /\ news_content = <<>>
    /\ pc = "running"
    /\ qi = Len(search_queries)
    /\ all_papers = <<>>
    /\ fetched = [k \in 1..(Len(search_queries) - 1) |-> Outcome(TRUE, <<>>)]
    /\ log = [k \in 1..(Len(search_queries) - 1) |-> k]
    /\ InitPapers
    /\ InitCalc
    /\ threads = <<>>
    /\ clock = <<>>
    /\ crashed = ""

\* The iteration of the loop over search_queries that reads such a response.
NewsFetchEntries ==
    /\ crashed = ""
    /\ pc = "running"
    /\ qi <= Len(search_queries)
    /\ \E resp \in EntryResponses :
          LET r == NewsQueryResult(all_papers, resp)
          IN  /\ all_papers' = r.papers
              /\ log' = IF r.raised THEN Append(log, qi) ELSE log
              /\ qi' = NewsNextQuery(qi, r.raised)
              /\ fetched' = Append(fetched, Outcome(FALSE, resp.entries))
    /\ UNCHANGED <<calc, threads, crashed, news_status, news_content, pc, clock, papersVars>>

\* The 'Read Full Article' button of a displayed item.  webbrowser.open
\* returns or raises; browser records the URLs it was called with.
open_article_detail ==
    /\ crashed = ""
    /\ Len(browser) < MaxOpens
    /\ \E i \in 1..Len(news_content) :
          LET item == news_content[i]
              url == item.url
          IN  IF url # ""
              THEN /\ browser' = Append(browser, url)
                   /\ \/ news_status' = "Opening article in browser: "
                                        \o Take(item.title, 50) \o "..."
                      \/ news_status' = "Could not open browser: no runnable browser"
              ELSE /\ browser' = browser
                   /\ news_status' = "No direct URL available for this article"
    /\ UNCHANGED <<calc, threads, crashed, news_content, pc, qi, all_papers, fetched, log, clock,
                   papers_status, papers_content, cat_pc, ci, cat_papers,
                   cat_fetched>>

NextEntry ==
    \/ NewsFetchEntries
    \/ NewsFinish
    \/ update_arxiv_papers
    \/ open_article_detail

SpecEntry == InitEntry /\ [][NextEntry]_vars

\* C11: opening a news article always hands a non-empty URL to the browser;
\* the resolution never ends with 'No direct URL available for this article',
\* also for an item whose url field is empty.
C11_ArticleAlwaysHasUrl ==
    /\ news_status # "No direct URL available for this article"
    /\ \A k \in 1..Len(browser) : browser[k] # ""

\* The entries of the response of the last request, once it was made.
LastEntries == fetched[Len(search_queries)].entries

\* C12: the parse of an entry never fails and never drops the record: each
\* entry of the response has its record, in order, with 'No title',
\* 'No abstract available', the default date and an empty URL in place of a
\* value that is absent or has no text, and no error line is printed for the
\* request.
C12_EveryEntryYieldsRecord ==
    Len(fetched) = Len(search_queries) =>
        /\ Len(all_papers) = Len(LastEntries)
        /\ Len(search_queries) \notin Range(log)
        /\ \A k \in 1..Len(all_papers) :
              LET e == LastEntries[k]
                  paper == all_papers[k]
              IN  /\ e.title.kind # "text" => paper.title = "No title"
                  /\ e.published.kind # "text" => paper.date = "2025-05-25"
                  /\ e.id.kind # "text" => paper.url = ""
                  /\ e.summary.kind # "text" =>
                        Contains(paper.content, "Abstract: No abstract available")

(***************************************************************************)
(* Calculators screen: numbers.  A Python float is modelled by the exact   *)
(* rational it stands for, a record [num, den] in lowest terms with        *)
(* den > 0; the arithmetic of the handlers is exact.  The texts typed hold *)
(* a sign, digits and a decimal point; float() also reads exponents,       *)
(* 'inf', 'nan' and digit separators, which no text of this model uses.    *)
(***************************************************************************)
RECURSIVE GCD(_, _)
GCD(a, b) == IF b = 0 THEN a ELSE GCD(b, a % b)

Abs(n) == IF n < 0 THEN -n ELSE n

\* num/den in lowest terms, den > 0.
Rat(num, den) ==
    LET g == GCD(Abs(num), Abs(den))
        s == IF den < 0 THEN -1 ELSE 1
    IN  [num |-> s * (num \div g), den |-> s * (den \div g)]

RatInt(n) == [num |-> n, den |-> 1]

\* The factors common to a numerator and the other denominator are divided
\* out before the products are taken.
RatMul(x, y) ==
    LET g1 == GCD(Abs(x.num), y.den)
        g2 == GCD(Abs(y.num), x.den)
    IN  [num |-> (x.num \div g1) * (y.num \div g2),
         den |-> (x.den \div g2) * (y.den \div g1)]

\* x / y for y # 0.
RatDiv(x, y) ==
    RatMul(x, IF y.num < 0 THEN [num |-> -y.den, den |-> -y.num]
              ELSE [num |-> y.den, den |-> y.num])

RatSub(x, y) == Rat(x.num * y.den - y.num * x.den, x.den * y.den)

RatAdd(x, y) == Rat(x.num * y.den + y.num * x.den, x.den * y.den)

RatLess(x, y) == x.num * y.den < y.num * x.den

RatLeq(x, y) == x.num * y.den <= y.num * x.den

\* math.sqrt of a non-negative rational whose numerator and denominator
\* are perfect squares.
ISqrt(n) == CHOOSE k \in 0..n : k * k = n

RatSqrt(x) == [num |-> ISqrt(x.num), den |-> ISqrt(x.den)]

Digits == "0123456789"

IsDigit(ch) == \E d \in 1..10 : SubSeq(Digits, d, d) = ch

DigitVal(ch) == (CHOOSE d \in 1..10 : SubSeq(Digits, d, d) = ch) - 1

AllDigits(s) == \A i \in 1..Len(s) : IsDigit(SubSeq(s, i, i))

RECURSIVE DigitsValue(_)
DigitsValue(s) ==
    IF s = "" THEN 0
    ELSE DigitsValue(SubSeq(s, 1, Len(s) - 1)) * 10
         + DigitVal(SubSeq(s, Len(s), Len(s)))

RECURSIVE Pow10(_)
Pow10(k) == IF k = 0 THEN 1 ELSE 10 * Pow10(k - 1)

\* Variant: a text without digits reads as 0.
ParseFloat_lenient(text) ==
    LET s == Strip(text)
        signed == Len(s) > 0 /\ SubSeq(s, 1, 1) \in {"-", "+"}
        body == IF signed THEN SubSeq(s, 2, Len(s)) ELSE s
        ip == BeforeFirst(body, ".")
        fp == IF Len(ip) < Len(body) THEN SubSeq(body, Len(ip) + 2, Len(body))
              ELSE ""
        sign == IF signed /\ SubSeq(s, 1, 1) = "-" THEN -1 ELSE 1
    IN  IF AllDigits(ip) /\ AllDigits(fp)
        THEN [ok |-> TRUE, value |-> Rat(sign * DigitsValue(ip \o fp), Pow10(Len(fp)))]
        ELSE [ok |-> FALSE, value |-> RatInt(0)]

\* float(text): white space around the number is dropped; a sign, digits
\* and at most one decimal point with a digit on one side of it at least;
\* anything else raises ValueError.
ParseFloat(text) ==
    LET s == Strip(text)
        signed == Len(s) > 0 /\ SubSeq(s, 1, 1) \in {"-", "+"}
        body == IF signed THEN SubSeq(s, 2, Len(s)) ELSE s
        ip == BeforeFirst(body, ".")
        fp == IF Len(ip) < Len(body) THEN SubSeq(body, Len(ip) + 2, Len(body))
              ELSE ""
        ok == AllDigits(ip) /\ AllDigits(fp) /\ Len(ip) + Len(fp) > 0
        sign == IF signed /\ SubSeq(s, 1, 1) = "-" THEN -1 ELSE 1
    IN  IF ok
        THEN [ok |-> TRUE, value |-> Rat(sign * DigitsValue(ip \o fp), Pow10(Len(fp)))]
        ELSE [ok |-> FALSE, value |-> RatInt(0)]

\* The first k decimal digits of r/den after the point, appended to q, and
\* what is left.
RECURSIVE LongDiv(_, _, _, _)
LongDiv(q, r, den, k) ==
    IF k = 0 THEN [q |-> q, r |-> r]
    ELSE LongDiv(q * 10 + (r * 10) \div den, (r * 10) % den, den, k - 1)

RECURSIVE ZeroPad(_, _)
ZeroPad(s, k) == IF Len(s) >= k THEN s ELSE ZeroPad("0" \o s, k)

\* format(x, '.kf') for k > 0: x rounded to k decimals, to the nearest and
\* to the even digit on a tie.
FormatFixed(x, k) ==
    LET n == Abs(x.num)
        d == LongDiv(n \div x.den, n % x.den, x.den, k)
        up == \/ 2 * d.r > x.den
              \/ 2 * d.r = x.den /\ d.q % 2 = 1
        m == IF up THEN d.q + 1 ELSE d.q
    IN  (IF x.num < 0 THEN "-" ELSE "")
        \o ToString(m \div Pow10(k)) \o "." \o ZeroPad(ToString(m % Pow10(k)), k)

(***************************************************************************)
(* CalculatorsScreen.calculate_waveguide.                                  *)
(***************************************************************************)
\* c of lines 1168 and 1207, in m/s.
SpeedOfLight == 299792458

\* The labels [cutoff, phase, group, attenuation] the two handlers leave.
WaveguideInvalid ==
    [cutoff |-> "Invalid input - please enter numbers",
     phase |-> "--", group |-> "--", attenuation |-> "--"]

WaveguideError(message) ==
    [cutoff |-> "Error: " \o message,
     phase |-> "--", group |-> "--", attenuation |-> "--"]

\* Variant: an attenuation that grows with the frequency.
AttenuationText_byfreq(freq, height) ==
    "Attenuation: ~"
    \o FormatFixed(RatAdd(Rat(5, 2), RatMul(freq, Rat(1, 10))), 1) \o " dB/Mm"

\* atten_db_per_mm = 2.5 and its label; str(2.5) is '2.5'.
AttenuationText(freq, height) ==
    "Attenuation: ~" \o FormatFixed(Rat(5, 2), 1) \o " dB/Mm"

\* Variant: the frequency is compared with the magnitude of the cutoff.
AboveCutoff_magnitude(freq, cutoff_freq) ==
    RatLess([num |-> Abs(cutoff_freq.num), den |-> cutoff_freq.den], freq)

\* Variant: a frequency equal to the cutoff counts as above it.
AboveCutoff_orequal(freq, cutoff_freq) == RatLeq(cutoff_freq, freq)

\* if freq > cutoff_freq
AboveCutoff(freq, cutoff_freq) == RatLess(cutoff_freq, freq)

\* cutoff_freq = c / (2 * height) and the text of its label.
CutoffFreq(height) == RatDiv(RatInt(SpeedOfLight), RatMul(RatInt(2), height))

CutoffText(cutoff_freq) == "TM0 cutoff: " \o FormatFixed(cutoff_freq, 1) \o " Hz"

\* phase_vel and group_vel for root = math.sqrt(1 - (cutoff_freq/freq)**2),
\* and the two ratios phase_vel/c and group_vel/c the labels show.
PhaseVel(root) == RatDiv(RatInt(SpeedOfLight), root)

\* Variant: the group velocity computed by the formula of the phase velocity.
GroupVel_asphase(root) == RatDiv(RatInt(SpeedOfLight), root)

GroupVel(root) == RatMul(RatInt(SpeedOfLight), root)

PhaseRatio(root) == RatDiv(PhaseVel(root), RatInt(SpeedOfLight))

GroupRatio(root) == RatDiv(GroupVel(root), RatInt(SpeedOfLight))

\* The labels after the statements under `if freq > cutoff_freq`.
VelocityLabels(cutoff_text, root, attenuation_text) ==
    [cutoff |-> cutoff_text,
     phase |-> "Phase velocity: " \o FormatFixed(PhaseRatio(root), 4) \o "c",
     group |-> "Group velocity: " \o FormatFixed(GroupRatio(root), 4) \o "c",
     attenuation |-> attenuation_text]

\* Variant: the ValueError handler leaves the cutoff label as the run wrote it.
AboveCutoffLabels_keepcutoff(cutoff_text, x, attenuation_text) ==
    IF x.num < 0 THEN [WaveguideInvalid EXCEPT !.cutoff = cutoff_text]
    ELSE IF x.num = 0 THEN WaveguideError("float division by zero")
    ELSE VelocityLabels(cutoff_text, RatSqrt(x), attenuation_text)

\* math.sqrt raises ValueError below zero; c / math.sqrt(0.0) raises
\* ZeroDivisionError.
AboveCutoffLabels(cutoff_text, x, attenuation_text) ==
    IF x.num < 0 THEN WaveguideInvalid
    ELSE IF x.num = 0 THEN WaveguideError("float division by zero")
    ELSE VelocityLabels(cutoff_text, RatSqrt(x), attenuation_text)

Square(x) == RatMul(x, x)

\* The statements after the cutoff label is set; cutoff_freq / freq raises
\* ZeroDivisionError on a zero frequency.
BranchLabels(freq, cutoff_freq, attenuation_text) ==
    IF AboveCutoff(freq, cutoff_freq)
    THEN IF freq.num = 0 THEN WaveguideError("float division by zero")
         ELSE AboveCutoffLabels(CutoffText(cutoff_freq),
                                RatSub(RatInt(1), Square(RatDiv(cutoff_freq, freq))),
                                attenuation_text)
    ELSE [cutoff |-> CutoffText(cutoff_freq),
          phase |-> "Below cutoff frequency",
          group |-> "Below cutoff frequency",
          attenuation |-> attenuation_text]

\* The statements after the two conversions; c / (2 * height) raises
\* ZeroDivisionError on a zero height.
NumericLabels(freq, height) ==
    IF height.num = 0 THEN WaveguideError("float division by zero")
    ELSE BranchLabels(freq, CutoffFreq(height), AttenuationText(freq, height))

\* float() raises ValueError on either text.
ParsedLabels(f, h) ==
    IF ~f.ok \/ ~h.ok THEN WaveguideInvalid
    ELSE NumericLabels(f.value, RatMul(h.value, RatInt(1000)))

\* The whole handler, from the two texts to the four labels.
WaveguideLabels(freq_text, height_text) ==
    ParsedLabels(ParseFloat(freq_text), ParseFloat(height_text))

\* The texts typed in the two fields.  With a height of 149896.229 km the
\* cutoff is 1 Hz, so that 1 - (cutoff_freq/freq)**2 is 9/25 at 1.25 Hz.
WaveguideFreqTexts == {"", "0", "1", "1.25", "-1.25", "0.5", "-1"}
HeightTexts == {"", "0", "149896.229", "-149896.229"}

\* The user fills the two fields and presses 'Calculate Waveguide Parameters'.
\* WaveguideLabels of every pair of texts, evaluated once.
WaveguideTable ==
    [ft \in WaveguideFreqTexts |->
        [ht \in HeightTexts |-> WaveguideLabels(ft, ht)]]

calculate_waveguide ==
    /\ crashed = ""
    /\ \E ft \in WaveguideFreqTexts, ht \in HeightTexts :
          LET r == WaveguideTable[ft][ht]
          IN  calc' = [calc EXCEPT !.waveguide_freq = ft,
                                   !.dlayer_height = ht,
                                   !.cutoff_result = r.cutoff,
                                   !.phase_velocity_result = r.phase,
                                   !.group_velocity_result = r.group,
                                   !.attenuation_result = r.attenuation]
    /\ UNCHANGED <<threads, crashed, clock, newsVars, papersVars>>

(***************************************************************************)
(* CalculatorsScreen.convert_frequency.                                    *)
(***************************************************************************)
\* if wavelength >= 1000
InKilometres(wavelength) == RatLeq(RatInt(1000), wavelength)

\* Variant: a zero frequency is reported as text that is not a number.
ZeroFrequencyLabel_invalid == "Invalid input - please enter a number"

\* except ZeroDivisionError
ZeroFrequencyLabel == "Frequency cannot be zero"

\* The whole handler, from the text of the field to the text of the label.
WavelengthLabel(text) ==
    LET f == ParseFloat(text)
    IN  IF ~f.ok THEN "Invalid input - please enter a number"
        ELSE IF f.value.num = 0 THEN ZeroFrequencyLabel
        ELSE
        LET wavelength == RatDiv(RatInt(SpeedOfLight), f.value)
        IN  IF InKilometres(wavelength)
            THEN "Wavelength: "
                 \o FormatFixed(RatDiv(wavelength, RatInt(1000)), 2) \o " km"
            ELSE "Wavelength: " \o FormatFixed(wavelength, 2) \o " m"

\* The texts typed in the field: 299792.458 Hz has a wavelength of 1000 m,
\* 300000 Hz one just below it.
FreqTexts ==
    {"", "abc", "0", "0.0", "-0", "20000", "-20000", "299792.458", "300000"}

WavelengthTable == [t \in FreqTexts |-> WavelengthLabel(t)]

\* The user fills the field and presses 'Convert to Wavelength'.
convert_frequency ==
    /\ crashed = ""
    /\ \E t \in FreqTexts :
          calc' = [calc EXCEPT !.freq_input = t,
                               !.wavelength_result = WavelengthTable[t]]
    /\ UNCHANGED <<threads, crashed, clock, newsVars, papersVars>>

(***************************************************************************)
(* CalculatorsScreen.calculate_distance.  An angle in radians is kept as   *)
(* its exact multiple of pi; the coordinates typed are multiples of 90     *)
(* degrees, where math.sin(x/2)**2, math.cos and math.asin(math.sqrt(a))   *)
(* have the exact values below.                                            *)
(***************************************************************************)
\* r of line 1193, in km.
EarthRadius == 6371

\* math.pi, as the rational 355/113 (3.1415929).
Pi == Rat(355, 113)

\* math.radians(deg), in multiples of pi.
Radians(deg) == RatDiv(deg, RatInt(180))

\* The part of x left after whole multiples of m are taken away, in [0, m).
RatMod(x, m) == Rat(x.num % (m * x.den), x.den)

\* math.sin(x * pi)**2 for x a multiple of 1/4.
SinSquared(x) ==
    LET t == RatMod(x, 1)
    IN  IF t = RatInt(0) THEN RatInt(0)
        ELSE IF t = Rat(1, 2) THEN RatInt(1)
        ELSE IF t \in {Rat(1, 4), Rat(3, 4)} THEN Rat(1, 2)
        ELSE CHOOSE v \in {} : TRUE

\* math.cos(x * pi) for x a multiple of 1/2.
Cos(x) ==
    LET t == RatMod(x, 2)
    IN  IF t = RatInt(0) THEN RatInt(1)
        ELSE IF t = RatInt(1) THEN RatInt(-1)
        ELSE IF t \in {Rat(1, 2), Rat(3, 2)} THEN RatInt(0)
        ELSE CHOOSE v \in {} : TRUE

\* math.asin(math.sqrt(a)) in multiples of pi; math.sqrt raises ValueError
\* below 0 and math.asin above 1.
AsinSqrt(a) ==
    IF a.num < 0 \/ RatLess(RatInt(1), a) THEN [ok |-> FALSE, value |-> RatInt(0)]
    ELSE [ok |-> TRUE,
          value |-> IF a = RatInt(0) THEN RatInt(0)
                    ELSE IF a = Rat(1, 2) THEN Rat(1, 4)
                    ELSE IF a = RatInt(1) THEN Rat(1, 2)
                    ELSE CHOOSE v \in {} : TRUE]

\* Variant: cos(lat2) is left out of the second term.
Haversine_nocos2(lat1, lon1, lat2, lon2) ==
    LET dlat == RatSub(lat2, lat1)
        dlon == RatSub(lon2, lon1)
    IN  RatAdd(SinSquared(RatDiv(dlat, RatInt(2))),
               RatMul(Cos(lat1), SinSquared(RatDiv(dlon, RatInt(2)))))

\* a = sin(dlat/2)**2 + cos(lat1) * cos(lat2) * sin(dlon/2)**2
Haversine(lat1, lon1, lat2, lon2) ==
    LET dlat == RatSub(lat2, lat1)
        dlon == RatSub(lon2, lon1)
    IN  RatAdd(SinSquared(RatDiv(dlat, RatInt(2))),
               RatMul(RatMul(Cos(lat1), Cos(lat2)),
                      SinSquared(RatDiv(dlon, RatInt(2)))))

\* The whole handler, from the four texts to the text of the label.
DistanceLabel(start_lat, start_lon, end_lat, end_lon) ==
    LET p1 == ParseFloat(start_lat)
        p2 == ParseFloat(start_lon)
        p3 == ParseFloat(end_lat)
        p4 == ParseFloat(end_lon)
    IN  IF ~p1.ok \/ ~p2.ok \/ ~p3.ok \/ ~p4.ok
        THEN "Invalid coordinates - please enter numbers"
        ELSE
        LET a == Haversine(Radians(p1.value), Radians(p2.value),
                           Radians(p3.value), Radians(p4.value))
            half == AsinSqrt(a)
        IN  IF ~half.ok THEN "Invalid coordinates - please enter numbers"
            ELSE
            LET distance == RatMul(RatMul(RatMul(RatInt(2), half.value), Pi),
                                   RatInt(EarthRadius))
            IN  "Distance: " \o FormatFixed(distance, 1) \o " km"

\* The points typed, as <<latitude text, longitude text>>.
PointTexts ==
    {<<"0", "0">>, <<"0", "360">>, <<"0", "180">>, <<"90", "0">>,
     <<"abc", "0">>, <<"0", "">>}

DistanceTable ==
    [p \in PointTexts |-> [q \in PointTexts |-> DistanceLabel(p[1], p[2], q[1], q[2])]]

\* The user fills the four fields and presses 'Calculate Distance'.
calculate_distance ==
    /\ crashed = ""
    /\ \E p \in PointTexts, q \in PointTexts :
          calc' = [calc EXCEPT !.start_lat = p[1], !.start_lon = p[2],
                               !.end_lat = q[1], !.end_lon = q[2],
                               !.distance_result = DistanceTable[p][q]]
    /\ UNCHANGED <<threads, crashed, clock, newsVars, papersVars>>

NextCalculators ==
    \/ convert_frequency
    \/ calculate_distance
    \/ calculate_waveguide

SpecCalculators == Init /\ [][NextCalculators]_vars

(***************************************************************************)
(* Claims on the calculators.  A handler has run when its result label no  *)
(* longer shows the placeholder of __init__.                               *)
(***************************************************************************)
StartsWith(s, prefix) == Take(s, Len(prefix)) = prefix

WaveguidePressed == calc.cutoff_result # "TM0 cutoff: --"

\* The two fields hold numbers and the height is not 0.
WaveguideNumeric ==
    /\ WaveguidePressed
    /\ ParseFloat(calc.waveguide_freq).ok
    /\ ParseFloat(calc.dlayer_height).ok
    /\ ParseFloat(calc.dlayer_height).value.num # 0

\* frequency and c / (2 * height * 1000) of the texts in the fields.
FieldFreq == ParseFloat(calc.waveguide_freq).value
FieldCutoff ==
    RatDiv(RatInt(SpeedOfLight),
           RatMul(RatInt(2000), ParseFloat(calc.dlayer_height).value))

\* The labels show two velocity ratios, the cutoff and the attenuation.
ShowsVelocities ==
    /\ StartsWith(calc.cutoff_result, "TM0 cutoff: ")
    /\ StartsWith(calc.phase_velocity_result, "Phase velocity: ")
    /\ StartsWith(calc.group_velocity_result, "Group velocity: ")
    /\ StartsWith(calc.attenuation_result, "Attenuation: ~")

\* The labels show one of the two error messages and no number.
ShowsWaveguideError ==
    /\ calc.cutoff_result \in {"Invalid input - please enter numbers",
                               "Error: float division by zero"}
    /\ calc.phase_velocity_result = "--"
    /\ calc.group_velocity_result = "--"
    /\ calc.attenuation_result = "--"

\* C13 as stated: for every numeric frequency and height of either sign
\* with frequency > cutoff, the labels show numeric phase and group velocity
\* ratios and no error.
C13_AboveCutoffIsNumeric ==
    (WaveguideNumeric /\ RatLess(FieldCutoff, FieldFreq)) => ShowsVelocities

\* C13 as amended: with frequency > cutoff the labels show numeric ratios
\* exactly when |frequency| > |cutoff|, which every positive height
\* implies; with a negative height and |frequency| <= |cutoff| the run ends
\* in an error outcome without a number.
C13_AboveCutoffOutcome ==
    (WaveguideNumeric /\ RatLess(FieldCutoff, FieldFreq)) =>
        /\ ParseFloat(calc.dlayer_height).value.num > 0 => ShowsVelocities
        /\ IF RatLess(RatMul(FieldCutoff, FieldCutoff), RatMul(FieldFreq, FieldFreq))
           THEN ShowsVelocities
           ELSE ShowsWaveguideError

C13_Witness ==
    /\ calc.waveguide_freq = "1.25"
    /\ calc.dlayer_height = "149896.229"
    /\ calc.phase_velocity_result = "Phase velocity: 1.6667c"
    /\ calc.group_velocity_result = "Group velocity: 0.6000c"

\* C14: for every numeric frequency and non-zero height with
\* frequency <= cutoff (equal to the cutoff, zero and negative included),
\* both velocity labels read 'Below cutoff frequency', the cutoff and the
\* attenuation are shown, and no error is reported.
C14_BelowCutoffOutcome ==
    (WaveguideNumeric /\ RatLeq(FieldFreq, FieldCutoff)) =>
        /\ calc.phase_velocity_result = "Below cutoff frequency"
        /\ calc.group_velocity_result = "Below cutoff frequency"
        /\ calc.cutoff_result = "TM0 cutoff: " \o FormatFixed(FieldCutoff, 1) \o " Hz"
        /\ calc.attenuation_result = "Attenuation: ~2.5 dB/Mm"

\* A run with the frequency equal to the cutoff.
C14_Witness ==
    /\ calc.waveguide_freq = "1"
    /\ calc.dlayer_height = "149896.229"
    /\ calc.phase_velocity_result = "Below cutoff frequency"
    /\ calc.cutoff_result = "TM0 cutoff: 1.0 Hz"

\* C15: with height 0 the handler ends in the outcome of a non-numeric
\* input: the invalid-input message, and '--' for the phase velocity, the
\* group velocity and the attenuation.
C15_ZeroHeightIsInvalidInput ==
    (/\ WaveguidePressed
     /\ ParseFloat(calc.dlayer_height).ok
     /\ ParseFloat(calc.dlayer_height).value.num = 0) =>
        /\ calc.cutoff_result = "Invalid input - please enter numbers"
        /\ calc.phase_velocity_result = "--"
        /\ calc.group_velocity_result = "--"
        /\ calc.attenuation_result = "--"

\* A text without a digit: float() raises ValueError on it (the spellings
\* of infinity and nan, which no field of this model holds, apart).
HasNoDigit(text) == \A i \in 1..Len(text) : ~IsDigit(SubSeq(text, i, i))

\* A text with digits that are all 0, and one with another digit.
HasNonZeroDigit(text) ==
    \E i \in 1..Len(text) :
        IsDigit(SubSeq(text, i, i)) /\ SubSeq(text, i, i) # "0"

FrequencyPressed == calc.wavelength_result # "Wavelength: --"

DistancePressed == calc.distance_result # "Distance: --"

\* C16: each of the three calculators, with a text that is no number in
\* one of its fields (an empty field included), shows its invalid-input
\* message and no number, whatever the other fields hold.
C16_UnparsableIsInvalidInput ==
    /\ (FrequencyPressed /\ HasNoDigit(calc.freq_input)) =>
          calc.wavelength_result = "Invalid input - please enter a number"
    /\ (DistancePressed
        /\ \E t \in {calc.start_lat, calc.start_lon, calc.end_lat, calc.end_lon} :
              HasNoDigit(t)) =>
          calc.distance_result = "Invalid coordinates - please enter numbers"
    /\ (WaveguidePressed
        /\ \E t \in {calc.waveguide_freq, calc.dlayer_height} : HasNoDigit(t)) =>
          /\ calc.cutoff_result = "Invalid input - please enter numbers"
          /\ calc.phase_velocity_result = "--"
          /\ calc.group_velocity_result = "--"
          /\ calc.attenuation_result = "--"

\* Each calculator has run with one field that holds no number while its
\* other fields hold numbers.
C16_Witness ==
    /\ calc.freq_input = "abc"
    /\ calc.wavelength_result = "Invalid input - please enter a number"
    /\ calc.start_lat = "0" /\ calc.start_lon = "180"
    /\ calc.end_lat = "0" /\ calc.end_lon = ""
    /\ calc.distance_result = "Invalid coordinates - please enter numbers"
    /\ calc.waveguide_freq = "1.25" /\ calc.dlayer_height = ""
    /\ calc.cutoff_result = "Invalid input - please enter numbers"

\* C17: a frequency text that parses to zero ('0', '0.0', '-0') ends in
\* 'Frequency cannot be zero' with no wavelength; every non-zero frequency
\* shows a wavelength and no error.
C17_ZeroFrequencyOutcome ==
    FrequencyPressed =>
        /\ (~HasNoDigit(calc.freq_input) /\ ~HasNonZeroDigit(calc.freq_input)) =>
              calc.wavelength_result = "Frequency cannot be zero"
        /\ HasNonZeroDigit(calc.freq_input) =>
              /\ StartsWith(calc.wavelength_result, "Wavelength: ")
              /\ \E unit \in {" km", " m"} :
                    SubSeq(calc.wavelength_result,
                           Len(calc.wavelength_result) - Len(unit) + 1,
                           Len(calc.wavelength_result)) = unit

C17_Witness ==
    /\ calc.freq_input = "-0"
    /\ calc.wavelength_result = "Frequency cannot be zero"

\* C18: for a non-zero frequency the wavelength c/f is shown in kilometres
\* (divided by 1000) exactly when its magnitude is at least 1000 m, and in
\* metres otherwise, a negative wavelength included.
C18_KilometresByMagnitude ==
    (FrequencyPressed /\ HasNonZeroDigit(calc.freq_input)) =>
        LET wavelength == RatDiv(RatInt(SpeedOfLight), ParseFloat(calc.freq_input).value)
            magnitude == [num |-> Abs(wavelength.num), den |-> wavelength.den]
        IN  calc.wavelength_result =
                IF RatLeq(RatInt(1000), magnitude)
                THEN "Wavelength: "
                     \o FormatFixed(RatDiv(wavelength, RatInt(1000)), 2) \o " km"
                ELSE "Wavelength: " \o FormatFixed(wavelength, 2) \o " m"

\* The run of calculate_waveguide ended without an error.
WaveguideSucceeded ==
    WaveguidePressed /\ StartsWith(calc.cutoff_result, "TM0 cutoff: ")

\* C19: whenever calculate_waveguide succeeds the attenuation shown is the
\* constant 2.5 dB/Mm, above and below cutoff, for every frequency and height.
C19_AttenuationIsConstant ==
    WaveguideSucceeded => calc.attenuation_result = "Attenuation: ~2.5 dB/Mm"

\* A successful run above cutoff with a negative height.
C19_Witness ==
    /\ calc.waveguide_freq = "1.25"
    /\ calc.dlayer_height = "-149896.229"
    /\ calc.phase_velocity_result = "Phase velocity: 1.6667c"
    /\ calc.attenuation_result = "Attenuation: ~2.5 dB/Mm"

\* C20: the distance shown is not negative, is the one shown for the two
\* points swapped, and is 0.0 km when the points have the same latitude and
\* longitudes that differ by a multiple of 360 degrees.
C20_DistanceProperties ==
    (/\ DistancePressed
     /\ \A t \in {calc.start_lat, calc.start_lon, calc.end_lat, calc.end_lon} :
           ParseFloat(t).ok) =>
        /\ StartsWith(calc.distance_result, "Distance: ")
        /\ ~StartsWith(calc.distance_result, "Distance: -")
        /\ calc.distance_result
             = DistanceLabel(calc.end_lat, calc.end_lon, calc.start_lat, calc.start_lon)
        /\ (/\ ParseFloat(calc.start_lat).value = ParseFloat(calc.end_lat).value
            /\ RatMod(RatSub(ParseFloat(calc.start_lon).value,
                             ParseFloat(calc.end_lon).value), 360) = RatInt(0)) =>
              calc.distance_result = "Distance: 0.0 km"

\* The two points differ by a full turn in longitude.
C20_Witness ==
    /\ calc.start_lat = "0" /\ calc.start_lon = "0"
    /\ calc.end_lat = "0" /\ calc.end_lon = "360"
    /\ calc.distance_result = "Distance: 0.0 km"

(***************************************************************************)
(* Claims on the velocity ratios of calculate_waveguide.                   *)
(***************************************************************************)
\* math.sqrt(1 - (cutoff_freq/freq)**2) of the texts in the fields, when the
\* handler has reached the two velocities.
FieldRoot == RatSqrt(RatSub(RatInt(1), Square(RatDiv(FieldCutoff, FieldFreq))))

\* C21: for every call with frequency > cutoff that computes the two
\* velocities, the labels show phase_vel/c and group_vel/c of the values in
\* the fields, and these two ratios multiply to 1.
C21_RatiosMultiplyToOne ==
    (WaveguideNumeric /\ RatLess(FieldCutoff, FieldFreq) /\ ShowsVelocities) =>
        /\ calc.phase_velocity_result
               = "Phase velocity: " \o FormatFixed(PhaseRatio(FieldRoot), 4) \o "c"
        /\ calc.group_velocity_result
               = "Group velocity: " \o FormatFixed(GroupRatio(FieldRoot), 4) \o "c"
        /\ RatMul(PhaseRatio(FieldRoot), GroupRatio(FieldRoot)) = RatInt(1)

\* A call at 1.25 Hz over a cutoff of -1 Hz: the ratios are 5/3 and 3/5.
C21_Witness ==
    /\ calc.waveguide_freq = "1.25"
    /\ calc.dlayer_height = "-149896.229"
    /\ calc.cutoff_result = "TM0 cutoff: -1.0 Hz"
    /\ PhaseRatio(FieldRoot) = Rat(5, 3)
    /\ GroupRatio(FieldRoot) = Rat(3, 5)
    /\ calc.group_velocity_result = "Group velocity: 0.6000c"

(***************************************************************************)
(* Claims on the search-by-title URL of open_paper_detail.                 *)
(***************************************************************************)
\* The title read once from left to right: a space becomes '+', a comma, a
\* colon and a double quote are dropped, any other character is kept.
RECURSIVE Sanitized(_)
Sanitized(title) ==
    IF title = "" THEN ""
    ELSE (IF CharAt(title, 1) = " " THEN "+"
          ELSE IF CharAt(title, 1) \in {",", ":", "\""} THEN ""
          ELSE CharAt(title, 1))
         \o Sanitized(SubSeq(title, 2, Len(title)))

\* The record has no usable abstract_url, arxiv_id or pdf_url.
TakesFallback(paper) ==
    /\ ~(paper.abstract_url # "" /\ Contains(paper.abstract_url, "arxiv.org"))
    /\ paper.arxiv_id = ""
    /\ ~(paper.pdf_url # "" /\ Contains(paper.pdf_url, "arxiv.org"))

SearchPrefix == "https://arxiv.org/search/?query="
SearchSuffix == "&searchtype=title"

\* What stands between the prefix and the suffix of a search URL.
TitlePart(url) == SubSeq(url, Len(SearchPrefix) + 1, Len(url) - Len(SearchSuffix))

\* C22: in the search-by-title URL the title part is the title with every
\* space replaced by '+' and every comma, colon and double quote removed,
\* the other characters unchanged and in their order; it holds no space,
\* comma, colon or double quote.
C22_TitlePartSanitized ==
    TakesFallback(papers_content[1]) =>
        \A k \in 1..Len(browser) :
            /\ StartsWith(browser[k], SearchPrefix)
            /\ SubSeq(browser[k], Len(browser[k]) - Len(SearchSuffix) + 1,
                      Len(browser[k])) = SearchSuffix
            /\ TitlePart(browser[k]) = Sanitized(papers_content[1].title)
            /\ \A i \in 1..Len(TitlePart(browser[k])) :
                   CharAt(TitlePart(browser[k]), i) \notin {" ", ",", ":", "\""}

\* The search URL of a title with doubled spaces, commas, colons and quotes
\* has been opened.
C22_Witness ==
    /\ TakesFallback(papers_content[1])
    /\ papers_content[1].title = "a  b,,c::d\"\"e+f"
    /\ browser # <<>>
    /\ browser[1] = "https://arxiv.org/search/?query=a++bcde+f&searchtype=title"

(***************************************************************************)
(* The fetch threads and the UI loop, with any number of fetches in        *)
(* flight.  A button handler runs on the UI loop and starts a thread; a    *)
(* thread reads and writes only its own locals up to its call of           *)
(* Clock.schedule_once, so its run from start to that call is one step;    *)
(* the UI loop runs the scheduled callbacks one at a time, oldest first.   *)
(***************************************************************************)
\* Fetch threads started in one run of the model.
MaxThreads == 2

\* What a thread run leaves: the callbacks it handed to Clock.schedule_once
\* and the stage of the thread after the call.
Run(cbs, stage) == [cbs |-> cbs, stage |-> stage]

RECURSIVE Concat(_)
Concat(lists) == IF lists = <<>> THEN <<>> ELSE Head(lists) \o Concat(Tail(lists))

\* The button handler starts a thread.
StartThread(kind, terms) ==
    /\ Len(threads) < MaxThreads
    /\ threads' = Append(threads, Thread(kind, terms, "running", 0))

\* The state the widgets show.
uiVars == <<news_status, news_content, papers_status, papers_content>>

\* Variant: the thread calls update_status itself instead of scheduling.
RunThread_direct(i, received, run) ==
    /\ clock' = clock
    /\ threads' = [threads EXCEPT ![i].stage = "done", ![i].received = received]
    /\ news_status' = "Error: HTTP 503"
    /\ UNCHANGED <<news_content, papers_status, papers_content>>

\* Thread i receives the responses and runs to its call of
\* Clock.schedule_once: it hands its callbacks to the clock and touches no
\* widget.
RunThread(i, received, run) ==
    /\ clock' = clock \o run.cbs
    /\ threads' = [threads EXCEPT
                      ![i].stage = run.stage,
                      ![i].scheduled = Len(run.cbs),
                      ![i].received = received,
                      ![i].delivered =
                          Concat([k \in 1..Len(run.cbs) |->
                                     run.cbs[k].papers \o run.cbs[k].articles])]
    /\ UNCHANGED uiVars

Running(kind) == {i \in 1..Len(threads) : threads[i].kind = kind
                                          /\ threads[i].stage = "running"}

(***************************************************************************)
(* News screen: spaceflight news.                                          *)
(***************************************************************************)
\* An article of the JSON body: a key is absent, null (NoText) or a string.
Article(title, published_at, summary, news_site, url) ==
    [title |-> title, published_at |-> published_at, summary |-> summary,
     news_site |-> news_site, url |-> url]

\* dict.get(key, default)
Get(field, default) == IF field.kind = "absent" THEN default ELSE field.text

\* article.get('published_at', '')[:10] raises TypeError on null.
ArticleRaises(article) == article.published_at.kind = "notext"

NewsItem(article) ==
    [title |-> Get(article.title, "No title"),
     date |-> Take(Get(article.published_at, ""), 10),
     content |-> Get(article.summary, "No summary available"),
     source |-> Get(article.news_site, "Spaceflight News"),
     url |-> Get(article.url, "")]

\* Variant: every article is displayed, with or without a url.
Displayed_all(item) == TRUE

\* if news_item['url']
Displayed(item) == item.url # ""

\* The loop of _update_spaceflight_news after clear_news(): the items
\* displayed when the loop ends or an article raises.
RECURSIVE AddedArticles(_)
AddedArticles(articles) ==
    IF articles = <<>> \/ ArticleRaises(Head(articles)) THEN <<>>
    ELSE (IF Displayed(NewsItem(Head(articles))) THEN <<NewsItem(Head(articles))>>
          ELSE <<>>)
         \o AddedArticles(Tail(articles))

FullArticle(k) ==
    Article(Txt("Solar storm " \o ToString(k)), Txt("2025-05-2" \o ToString(k) \o "T08:00:00Z"),
            Txt("A geomagnetic storm."), Txt("SpaceNews"),
            Txt("https://spacenews.com/storm-" \o ToString(k)))

\* An article without a url key, one with an empty url and one whose
\* published_at is null.
NoUrlArticle ==
    Article(Txt("Plasma waves"), Txt("2025-05-20T08:00:00Z"), Absent, Absent, Absent)
EmptyUrlArticle ==
    Article(Txt("Magnetic field"), Txt("2025-05-19T08:00:00Z"), Txt("A field."),
            Txt("NASA"), Txt(""))
UndatedArticle ==
    Article(Txt("Undated"), NoText, Txt("No date."), Txt("ESA"),
            Txt("https://www.esa.int/undated"))

ArticleLists ==
    { <<FullArticle(1), FullArticle(2)>>,
      <<FullArticle(1), NoUrlArticle, EmptyUrlArticle>>,
      <<FullArticle(1), UndatedArticle, FullArticle(2)>> }

\* The responses of the spaceflight endpoint: a JSON body with a list of
\* articles, an HTTP error status, a transport failure.
SpaceflightResponses ==
    {Response("none", 200, TRUE, a) : a \in ArticleLists}
    \cup {Response("none", 503, FALSE, <<>>), Response("network", 0, FALSE, <<>>)}

\* str(e) of the exception of a request that raised.
RequestErrorText(resp) ==
    IF resp.err = "network" THEN "Connection refused"
    ELSE IF resp.err = "timeout" THEN "Read timed out"
    ELSE "Expecting value: line 1 column 1 (char 0)"

\* _fetch_spaceflight_news_thread as thread number i.
SpaceflightRun(resp, i) ==
    IF resp.err # "none" \/ (resp.status_code = 200 /\ ~resp.wellformed)
    THEN Run(<<ErrorCallback("news.update_status",
                   "Error fetching news: " \o RequestErrorText(resp), i)>>, "handling")
    ELSE IF resp.status_code = 200
    THEN Run(<<ArticlesCallback(resp.entries)>>, "done")
    ELSE Run(<<Callback("news.update_status", <<>>,
                   "Error: HTTP " \o ToString(resp.status_code))>>, "done")

\* on_press of spaceflight_btn.
fetch_spaceflight_news ==
    /\ crashed = ""
    /\ StartThread("spaceflight", "")
    /\ news_status' = "Fetching spaceflight news..."
    /\ UNCHANGED <<calc, crashed, clock, news_content, pc, qi, all_papers, fetched,
                   log, papersVars>>

\* SpaceflightRun of every response for every thread number, evaluated once.
SpaceflightTable ==
    [i \in 1..MaxThreads |->
        [resp \in SpaceflightResponses |-> SpaceflightRun(resp, i)]]

fetch_spaceflight_news_thread ==
    /\ crashed = ""
    /\ \E i \in Running("spaceflight"), resp \in SpaceflightResponses :
          RunThread(i, <<resp>>, SpaceflightTable[i][resp])
    /\ UNCHANGED <<calc, crashed, pc, qi, all_papers, fetched, log, cat_pc, ci,
                   cat_papers, cat_fetched, browser>>

\* The UI loop runs the scheduled _update_spaceflight_news(articles).  An
\* exception of the loop leaves the callback and ends the app.
update_spaceflight_news ==
    /\ crashed = ""
    /\ clock # <<>>
    /\ Head(clock).fn = "_update_spaceflight_news"
    /\ news_status' = "Loaded " \o ToString(Len(Head(clock).articles))
                      \o " spaceflight articles"
    /\ news_content' = AddedArticles(Head(clock).articles)
    /\ crashed' = IF \E k \in 1..Len(Head(clock).articles) :
                         ArticleRaises(Head(clock).articles[k])
                  THEN "TypeError" ELSE ""
    /\ clock' = Tail(clock)
    /\ UNCHANGED <<calc, threads, pc, qi, all_papers, fetched, log, papersVars>>

\* The UI loop runs a scheduled lambda that calls NewsScreen.update_status.
news_update_status ==
    /\ crashed = ""
    /\ clock # <<>>
    /\ Head(clock).fn = "news.update_status"
    /\ IF Unbound(Head(clock))
       THEN news_status' = news_status /\ crashed' = "NameError"
       ELSE news_status' = Head(clock).message /\ crashed' = crashed
    /\ clock' = Tail(clock)
    /\ UNCHANGED <<calc, threads, news_content, pc, qi, all_papers, fetched, log,
                   papersVars>>

(***************************************************************************)
(* News screen: physics news.                                              *)
(***************************************************************************)
sample_physics_news ==
    <<[title |-> "New Discoveries in Electromagnetic Wave Propagation",
       date |-> "2025-05-24",
       content |-> "Recent research reveals novel mechanisms in VLF wave propagation through the Earth-ionosphere waveguide.",
       source |-> "Physics Today", url |-> "https://physicstoday.scitation.org/"],
      [title |-> "Lightning-Generated Radio Waves Studied with AI",
       date |-> "2025-05-23",
       content |-> "Machine learning algorithms help scientists better understand the electromagnetic signatures of lightning strikes.",
       source |-> "Nature Physics", url |-> "https://www.nature.com/nphys/"],
      [title |-> "Space Weather Impact on VLF Communications",
       date |-> "2025-05-22",
       content |-> "Solar activity affects Very Low Frequency radio propagation, impacting global navigation systems.",
       source |-> "Geophysical Research Letters",
       url |-> "https://agupubs.onlinelibrary.wiley.com/journal/19448007"]>>

\* on_press of physics_btn.
fetch_physics_news ==
    /\ crashed = ""
    /\ StartThread("physics", "")
    /\ news_status' = "Fetching physics news..."
    /\ UNCHANGED <<calc, crashed, clock, news_content, pc, qi, all_papers, fetched,
                   log, papersVars>>

\* Building the list raises nothing, so the handler of lines 737-738 is
\* never entered.
fetch_physics_news_thread ==
    /\ crashed = ""
    /\ \E i \in Running("physics") :
          RunThread(i, <<>>,
                    Run(<<Callback("_update_physics_news", sample_physics_news, "")>>,
                        "done"))
    /\ UNCHANGED <<calc, crashed, pc, qi, all_papers, fetched, log, cat_pc, ci,
                   cat_papers, cat_fetched, browser>>

update_physics_news ==
    /\ crashed = ""
    /\ clock # <<>>
    /\ Head(clock).fn = "_update_physics_news"
    /\ news_status' = "Loaded " \o ToString(Len(Head(clock).papers))
                      \o " physics articles"
    /\ news_content' = Head(clock).papers
    /\ clock' = Tail(clock)
    /\ UNCHANGED <<calc, threads, crashed, pc, qi, all_papers, fetched, log,
                   papersVars>>

(***************************************************************************)
(* News screen: arXiv papers, with fetches in flight.                      *)
(***************************************************************************)
\* The answers to the five queries of one run of the thread: every query
\* answers with its own entries, none does.
OwnResponse(q) ==
    Response("none", 200, TRUE, [j \in 1..MaxEntries |-> OwnEntry(q, j)])

ArxivAnswers ==
    { [q \in 1..Len(search_queries) |-> OwnResponse(q)],
      [q \in 1..Len(search_queries) |-> Response("network", 0, FALSE, <<>>)] }

\* all_papers after the loop over search_queries.
NewsAllPapers(resps) ==
    Concat([q \in 1..Len(search_queries) |-> NewsParsed[q][resps[q]].papers])

\* _fetch_arxiv_papers_thread.
ArxivRun(resps) ==
    Run(<<Callback("_update_arxiv_papers", FinalPapers(NewsAllPapers(resps)), "")>>,
        "done")

\* on_press of arxiv_btn: fetch_arxiv_papers, whatever is in flight.
arxiv_btn ==
    /\ crashed = ""
    /\ StartThread("arxiv", "")
    /\ news_status' = "Fetching arXiv papers..."
    /\ news_content' = <<>>
    /\ UNCHANGED <<calc, crashed, clock, pc, qi, all_papers, fetched, log,
                   papersVars>>

ArxivTable == [resps \in ArxivAnswers |-> ArxivRun(resps)]

fetch_arxiv_papers_thread ==
    /\ crashed = ""
    /\ \E i \in Running("arxiv"), resps \in ArxivAnswers :
          RunThread(i, resps, ArxivTable[resps])
    /\ UNCHANGED <<calc, crashed, pc, qi, all_papers, fetched, log, cat_pc, ci,
                   cat_papers, cat_fetched, browser>>

(***************************************************************************)
(* Papers screen: search, with fetches in flight.                          *)
(***************************************************************************)
\* An entry with the given id element.
IdEntry(k, id) ==
    Entry(Txt("Paper " \o ToString(k)), id, Txt(PubText(k)), Txt("A summary."),
          <<Txt("A. Author")>>, <<"physics.space-ph">>)

\* Entry lists of a search: ids with and without a version, an id on
\* another site, an entry without id element, identifiers of the archives
\* solv-int and physics; an entry whose title element has no text.
SearchBodies ==
    { <<IdEntry(1, Txt("http://arxiv.org/abs/2505.00011v2")),
        IdEntry(2, Txt("http://arxiv.org/abs/2505.00012")),
        IdEntry(3, Txt("https://example.org/paper/17")),
        IdEntry(4, Absent),
        IdEntry(5, Txt("http://arxiv.org/abs/solv-int/9901001v1")),
        IdEntry(6, Txt("http://arxiv.org/abs/physics/0501001v12"))>>,
      <<IdEntry(7, Txt("http://arxiv.org/abs/2505.00017v1")), EmptyTitleEntry(1)>> }

SearchResponses ==
    {Response("none", 200, TRUE, b) : b \in SearchBodies}
    \cup {Response("none", 503, FALSE, <<>>), Response("timeout", 0, FALSE, <<>>)}

\* Variant: the branch of a status other than 200 schedules nothing.
SearchRun_silent(resp, search_terms, i) ==
    IF resp.err # "none"
       \/ (resp.status_code = 200
           /\ (~resp.wellformed \/ PapersParseEntries(<<>>, resp.entries).raised))
    THEN Run(<<ErrorCallback("papers.update_status",
                   "Error searching arXiv: " \o ErrorText(resp), i)>>, "handling")
    ELSE IF resp.status_code = 200
    THEN Run(<<Callback("_update_arxiv_results",
                        PapersParseEntries(<<>>, resp.entries).papers, search_terms)>>,
             "done")
    ELSE Run(<<>>, "done")

\* _search_arxiv_thread as thread number i.
SearchRun(resp, search_terms, i) ==
    IF resp.err # "none"
       \/ (resp.status_code = 200
           /\ (~resp.wellformed \/ PapersParseEntries(<<>>, resp.entries).raised))
    THEN Run(<<ErrorCallback("papers.update_status",
                   "Error searching arXiv: " \o ErrorText(resp), i)>>, "handling")
    ELSE IF resp.status_code = 200
    THEN Run(<<Callback("_update_arxiv_results",
                        PapersParseEntries(<<>>, resp.entries).papers, search_terms)>>,
             "done")
    ELSE Run(<<Callback("papers.update_status", <<>>,
                   "Error: HTTP " \o ToString(resp.status_code))>>, "done")

\* The text of search_input when the button is pressed.
SearchTexts == {" whistler waves "}

\* on_press of search_btn.
search_arxiv ==
    /\ crashed = ""
    /\ \E text \in SearchTexts :
          IF Strip(text) = ""
          THEN /\ papers_status' = "Please enter search terms"
               /\ UNCHANGED threads
          ELSE /\ papers_status' = "Searching arXiv for: " \o Strip(text) \o "..."
               /\ StartThread("search", Strip(text))
    /\ UNCHANGED <<calc, crashed, clock, papers_content, cat_pc, ci, cat_papers,
                   cat_fetched, browser, newsVars>>

SearchTerms == {Strip(text) : text \in SearchTexts} \ {""}

SearchTable ==
    [i \in 1..MaxThreads |->
        [search_terms \in SearchTerms |->
            [resp \in SearchResponses |-> SearchRun(resp, search_terms, i)]]]

search_arxiv_thread ==
    /\ crashed = ""
    /\ \E i \in Running("search"), resp \in SearchResponses :
          RunThread(i, <<resp>>, SearchTable[i][threads[i].terms][resp])
    /\ UNCHANGED <<calc, crashed, pc, qi, all_papers, fetched, log, cat_pc, ci,
                   cat_papers, cat_fetched, browser>>

\* The UI loop runs the scheduled _update_arxiv_results(papers, search_terms).
update_arxiv_results ==
    /\ crashed = ""
    /\ clock # <<>>
    /\ Head(clock).fn = "_update_arxiv_results"
    /\ papers_content' = AddedPapers(Head(clock).papers)
    /\ papers_status' = "Found " \o ToString(Len(Head(clock).papers))
                        \o " papers for \"" \o Head(clock).message \o "\""
    /\ crashed' = IF \E k \in 1..Len(Head(clock).papers) :
                         AddPaperRaises(Head(clock).papers[k])
                  THEN "TypeError" ELSE ""
    /\ clock' = Tail(clock)
    /\ UNCHANGED <<calc, threads, cat_pc, ci, cat_papers, cat_fetched, browser,
                   newsVars>>

(***************************************************************************)
(* Papers screen: physics categories, with fetches in flight.              *)
(***************************************************************************)
\* The answers to the four category requests of one run of the thread:
\* the first category answers 503 and the others with their own entries,
\* or the second request times out.
CategoryAnswers ==
    { [c \in 1..Len(categories) |->
          IF c = 1 THEN Response("none", 503, FALSE, <<>>) ELSE OwnResponse(c)],
      [c \in 1..Len(categories) |->
          IF c = 2 THEN Response("timeout", 0, FALSE, <<>>) ELSE OwnResponse(c)] }

\* The loop over categories from category c on, with all_papers = acc:
\* the list at the end of the loop, or the response that raised.
RECURSIVE CategoryLoop(_, _, _)
CategoryLoop(acc, resps, c) ==
    IF c > Len(categories) THEN [papers |-> acc, raised |-> FALSE, at |-> 0]
    ELSE IF CatQueryResult(acc, resps[c]).raised
    THEN [papers |-> acc, raised |-> TRUE, at |-> c]
    ELSE CategoryLoop(CatQueryResult(acc, resps[c]).papers, resps, c + 1)

\* _load_physics_categories_thread as thread number i.
CategoryRun(resps, i) ==
    IF CategoryLoop(<<>>, resps, 1).raised
    THEN Run(<<ErrorCallback("papers.update_status",
                   "Error loading categories: "
                   \o ErrorText(resps[CategoryLoop(<<>>, resps, 1).at]), i)>>,
             "handling")
    ELSE Run(<<Callback("_update_category_results",
                        CategoryLoop(<<>>, resps, 1).papers, "")>>, "done")

\* on_press of category_btn: load_physics_categories, whatever is in flight.
category_btn ==
    /\ crashed = ""
    /\ StartThread("categories", "")
    /\ papers_status' = "Loading papers from physics categories..."
    /\ UNCHANGED <<calc, crashed, clock, papers_content, cat_pc, ci, cat_papers,
                   cat_fetched, browser, newsVars>>

CategoryTable ==
    [i \in 1..MaxThreads |-> [resps \in CategoryAnswers |-> CategoryRun(resps, i)]]

load_physics_categories_thread ==
    /\ crashed = ""
    /\ \E i \in Running("categories"), resps \in CategoryAnswers :
          RunThread(i, resps, CategoryTable[i][resps])
    /\ UNCHANGED <<calc, crashed, pc, qi, all_papers, fetched, log, cat_pc, ci,
                   cat_papers, cat_fetched, browser>>

(***************************************************************************)
(* The five buttons, the five threads and the UI loop.                     *)
(***************************************************************************)
NextThreads ==
    \/ fetch_spaceflight_news
    \/ arxiv_btn
    \/ fetch_physics_news
    \/ search_arxiv
    \/ category_btn
    \/ fetch_spaceflight_news_thread
    \/ fetch_arxiv_papers_thread
    \/ fetch_physics_news_thread
    \/ search_arxiv_thread
    \/ load_physics_categories_thread
    \/ end_of_except
    \/ update_spaceflight_news
    \/ update_arxiv_papers
    \/ update_physics_news
    \/ news_update_status
    \/ update_arxiv_results
    \/ update_category_results
    \/ papers_update_status

SpecThreads == Init /\ [][NextThreads]_vars

\* The steps of the threads.  Every request has a timeout (573, 628, 1333,
\* 1427), so a thread that is started goes on to its call of schedule_once,
\* and out of its except block, as long as the app runs.
ThreadsRun ==
    \/ fetch_spaceflight_news_thread
    \/ fetch_arxiv_papers_thread
    \/ fetch_physics_news_thread
    \/ search_arxiv_thread
    \/ load_physics_categories_thread
    \/ end_of_except

SpecThreadsFair == SpecThreads /\ WF_vars(ThreadsRun)

(***************************************************************************)
(* Claims on the threads and the UI loop.                                  *)
(***************************************************************************)
\* A step of a thread: the record of a thread started before changes.
ThreadStep == \E i \in 1..Len(threads) : threads'[i] # threads[i]

\* A step of the UI loop: a button handler, which starts a thread or
\* refuses empty search terms, or the callback at the head of the clock.
UiStep ==
    \/ /\ Len(threads') = Len(threads) + 1
       /\ clock' = clock
    \/ /\ threads' = threads
       /\ clock' = clock
       /\ papers_status' = "Please enter search terms"
    \/ /\ threads' = threads
       /\ clock # <<>>
       /\ clock' = Tail(clock)

\* C23: a step of a fetch thread changes no status label and no list; every
\* change of them is made by a step of the UI loop, that is by a button
\* handler or by the one scheduled callback the loop is running.
C23_ThreadsLeaveWidgetsAlone ==
    [][/\ ThreadStep => UNCHANGED uiVars
       /\ ~(UNCHANGED uiVars) => (UiStep /\ ~ThreadStep)]_vars

\* Two threads have run to their call of schedule_once while the labels
\* still show what the button handlers wrote; both callbacks wait.
C23_Witness ==
    /\ Len(threads) = 2
    /\ threads[1].kind = "spaceflight" /\ threads[1].stage = "done"
    /\ threads[2].kind = "search" /\ threads[2].stage = "handling"
    /\ Len(clock) = 2
    /\ news_status = "Fetching spaceflight news..."
    /\ papers_status = "Searching arXiv for: whistler waves..."

\* C24: when the UI loop runs the lambda scheduled by the exception handler
\* of a fetch thread, the lambda runs without error and sets the status
\* label of its screen to the error message.
C24_ErrorStatusIsShown ==
    [][(clock # <<>> /\ Head(clock).frame # 0 /\ clock' = Tail(clock)) =>
           /\ crashed' = ""
           /\ Head(clock).fn = "news.update_status" =>
                  news_status' = Head(clock).message
           /\ Head(clock).fn = "papers.update_status" =>
                  papers_status' = Head(clock).message]_vars

\* The threads started by the three buttons of the news screen.
NewsThreads ==
    {i \in 1..Len(threads) : threads[i].kind \in {"spaceflight", "arxiv", "physics"}}

\* No fetch of the news screen is in flight: every thread has made its call
\* of schedule_once and the UI loop has run every callback.
NewsIdle ==
    /\ crashed = ""
    /\ \A i \in NewsThreads : threads[i].stage # "running"
    /\ \A k \in 1..Len(clock) :
           Head(SubSeq(clock, k, k)).fn \notin
               {"_update_spaceflight_news", "_update_arxiv_papers",
                "_update_physics_news", "news.update_status"}

\* The list one fetch displays on its own.
ListOf(thread) ==
    IF thread.kind = "spaceflight" THEN AddedArticles(thread.delivered)
    ELSE thread.delivered

TitlesDistinct(list) ==
    \A i, j \in 1..Len(list) : i # j => list[i].title # list[j].title

\* C25: once no fetch of the news screen is in flight, the list displayed is
\* the list of one fetch (or the list a button handler left); after an arXiv
\* fetch it has at most 10 items with pairwise distinct titles.
C25_ListOfOneFetch ==
    NewsIdle =>
        /\ news_content \in ({SampleNews, <<>>}
                             \cup {ListOf(threads[i]) : i \in NewsThreads})
        /\ Contains(news_status, "arXiv papers") =>
               /\ Len(news_content) <= TotalLimit
               /\ TitlesDistinct(news_content)

\* The threads of the papers screen.
PapersThreads ==
    {i \in 1..Len(threads) : threads[i].kind \in {"search", "categories"}}

\* Every fetch requested has completed and the UI loop has run every
\* callback without an exception.
AllCompleted ==
    /\ crashed = ""
    /\ clock = <<>>
    /\ \A i \in 1..Len(threads) : threads[i].stage = "done"

\* The status texts the callbacks of a fetch of each kind can leave.
StatusOfKind(status, kind) ==
    IF kind = "spaceflight"
    THEN \/ Contains(status, "spaceflight articles")
         \/ StartsWith(status, "Error: HTTP")
         \/ StartsWith(status, "Error fetching news:")
    ELSE IF kind = "arxiv"
    THEN Contains(status, "arXiv papers")
    ELSE IF kind = "physics"
    THEN Contains(status, "physics articles")
    ELSE IF kind = "search"
    THEN \/ StartsWith(status, "Found ")
         \/ StartsWith(status, "Error: HTTP")
         \/ StartsWith(status, "Error searching arXiv:")
    ELSE \/ Contains(status, "papers from physics categories")
         \/ StartsWith(status, "Error loading categories:")

\* C26: when two fetches were requested one after the other on the same
\* screen and both have completed, the status displayed is the one of the
\* fetch requested last, and so is the list when that fetch delivered one.
C26_LastRequestWins ==
    AllCompleted =>
        /\ Len(threads) = 2 /\ NewsThreads = {1, 2} =>
               /\ StatusOfKind(news_status, threads[2].kind)
               /\ threads[2].scheduled = 1 /\ threads[2].delivered # <<>> =>
                      news_content = ListOf(threads[2])
        /\ Len(threads) = 2 /\ PapersThreads = {1, 2} =>
               /\ StatusOfKind(papers_status, threads[2].kind)
               /\ threads[2].scheduled = 1 /\ threads[2].delivered # <<>> =>
                      papers_content = AddedPapers(threads[2].delivered)

\* A thread has made no call of schedule_once while it runs and exactly
\* one once it has left its try block.
OneCallbackEach ==
    \A i \in 1..Len(threads) :
        threads[i].scheduled = IF threads[i].stage = "running" THEN 0 ELSE 1

\* Every thread started so far has ended.  A thread alive when an exception
\* of a UI callback ends the app ends with the process.
AllEnded ==
    crashed # "" \/ \A i \in 1..Len(threads) : threads[i].stage = "done"

\* C27: every fetch thread that is started ends, and on every path it takes
\* (a result, a status other than 200, an exception) it has called
\* Clock.schedule_once exactly once: never zero callbacks and never two.
C27_ExactlyOneCallback == []OneCallbackEach /\ []<>AllEnded

\* A search that answered 503 and a category load whose second request
\* timed out have both ended, with one callback each.
C27_Witness ==
    /\ Len(threads) = 2
    /\ threads[1].kind = "search" /\ threads[1].stage = "done"
    /\ threads[1].received[1].status_code = 503
    /\ threads[2].kind = "categories" /\ threads[2].stage = "done"
    /\ threads[2].received[2].err = "timeout"
    /\ threads[1].scheduled = 1 /\ threads[2].scheduled = 1

\* C28: after _update_spaceflight_news has applied a result, the count of
\* the status label 'Loaded N spaceflight articles' is the number of items
\* in the news list.
C28_CountMatchesList ==
    Contains(news_status, "spaceflight articles") =>
        news_status = "Loaded " \o ToString(Len(news_content)) \o " spaceflight articles"

\* The number of digits at the end of s.
RECURSIVE TrailingDigits(_)
TrailingDigits(s) ==
    IF s # "" /\ IsDigit(CharAt(s, Len(s)))
    THEN 1 + TrailingDigits(SubSeq(s, 1, Len(s) - 1))
    ELSE 0

\* s without a version suffix at its end: 'v' followed by digits.
WithoutVersion(s) ==
    IF /\ TrailingDigits(s) >= 1
       /\ Len(s) > TrailingDigits(s)
       /\ CharAt(s, Len(s) - TrailingDigits(s)) = "v"
    THEN SubSeq(s, 1, Len(s) - TrailingDigits(s) - 1)
    ELSE s

HasAbsPattern(id) == id.kind = "text" /\ Contains(id.text, "arxiv.org/abs/")

\* The identifier of an id element as the claim gives it.
ExpectedId(id) ==
    IF HasAbsPattern(id) THEN WithoutVersion(AfterLast(id.text, "arxiv.org/abs/"))
    ELSE ""

\* The entries of the bodies a thread of the papers screen has parsed.
EntriesOf(thread) ==
    Concat([r \in 1..Len(thread.received) |->
               IF thread.received[r].status_code = 200
               THEN thread.received[r].entries ELSE <<>>])

\* C29: in every list a parser of the papers screen hands over, the
\* identifier of an entry whose id contains 'arxiv.org/abs/' is the text
\* after that pattern without its trailing version suffix, and abstract_url
\* and pdf_url are built from it; for another id the three fields are empty.
C29_IdentifierAndUrls ==
    \A i \in PapersThreads :
        (threads[i].stage = "done" /\ threads[i].delivered # <<>>) =>
            \A k \in 1..Len(threads[i].delivered) :
                LET id == EntriesOf(threads[i])[k].id
                    paper == threads[i].delivered[k]
                IN  /\ paper.arxiv_id = ExpectedId(id)
                    /\ paper.abstract_url =
                           IF HasAbsPattern(id)
                           THEN "https://arxiv.org/abs/" \o ExpectedId(id) ELSE ""
                    /\ paper.pdf_url =
                           IF HasAbsPattern(id)
                           THEN "https://arxiv.org/pdf/" \o ExpectedId(id) \o ".pdf"
                           ELSE ""

(***************************************************************************)
(* Claim on the consistency of the four labels of calculate_waveguide.     *)
(***************************************************************************)
\* The four labels show the results of the texts now in the two fields: the
\* cutoff of the height, and either two velocity ratios or twice the
\* below-cutoff message, and an attenuation.
ShowsResultsOfCall ==
    /\ WaveguideNumeric
    /\ calc.cutoff_result = "TM0 cutoff: " \o FormatFixed(FieldCutoff, 1) \o " Hz"
    /\ \/ /\ StartsWith(calc.phase_velocity_result, "Phase velocity: ")
          /\ StartsWith(calc.group_velocity_result, "Group velocity: ")
          /\ RatLess(FieldCutoff, FieldFreq)
       \/ /\ calc.phase_velocity_result = "Below cutoff frequency"
          /\ calc.group_velocity_result = "Below cutoff frequency"
          /\ ~RatLess(FieldCutoff, FieldFreq)
    /\ StartsWith(calc.attenuation_result, "Attenuation: ~")

\* The cutoff label shows an error message and the other three show '--'.
ShowsErrorOnly ==
    /\ \/ calc.cutoff_result = "Invalid input - please enter numbers"
       \/ StartsWith(calc.cutoff_result, "Error: ")
    /\ calc.phase_velocity_result = "--"
    /\ calc.group_velocity_result = "--"
    /\ calc.attenuation_result = "--"

\* C30: after every calculate_waveguide call, over any sequence of calls,
\* the four result labels either all show the results of that call, or the
\* cutoff label shows an error message and phase velocity, group velocity
\* and attenuation all show '--'; no value of an earlier call and no partial
\* result of the failed call stays.
C30_LabelsOfOneCall ==
    WaveguidePressed => (ShowsResultsOfCall \/ ShowsErrorOnly)

\* A call that wrote the cutoff label (-1.0 Hz) and then failed in math.sqrt
\* shows the error message and three times '--'.
C30_Witness ==
    /\ calc.waveguide_freq = "0.5"
    /\ calc.dlayer_height = "-149896.229"
    /\ calc.cutoff_result = "Invalid input - please enter numbers"
    /\ calc.phase_velocity_result = "--"
    /\ calc.group_velocity_result = "--"
    /\ calc.attenuation_result = "--"

====
